---- MODULE Spec2Model ----
(***************************************************************************)
(* State machine of gnvim's UIState (src/ui/state.rs) and Window           *)
(* (src/ui/window.rs): the redraw-event handlers, the resize-on-flush      *)
(* batching, the highlight dirty flag and the popupmenu / wildmenu         *)
(* routing.  Pixel quantities are integers (the f64 arithmetic of the      *)
(* source is exact on them).                                               *)
(***************************************************************************)
EXTENDS Integers, Sequences, FiniteSets, TLC

VARIABLES
    grids,            \* UIState.grids : grid id -> Grid
    windows,          \* UIState.windows : grid id -> Window
    current_grid,     \* UIState.current_grid
    hl_defs,          \* UIState.hl_defs
    hl_changed,       \* UIState.hl_changed
    font,             \* UIState.font
    line_space,       \* UIState.line_space
    resize_on_flush,  \* UIState.resize_on_flush : None or ResizeOptions
    resize_source_id, \* UIState.resize_source_id : a delayed ui_try_resize is scheduled
    wildmenu_shown,   \* UIState.wildmenu_shown
    popupmenu,        \* UIState.popupmenu
    cmdline,          \* UIState.cmdline
    tabline,          \* UIState.tabline
    css,              \* the style sheet last loaded into UIState.css_provider
    calls,            \* what the last handler asked of its collaborators, in order
    panicked,         \* an unwrap() of the last handler failed
    history,          \* history: the options and default colours set since the last
                      \* Flush, and the grid of the last PopupmenuShow
    last_event,       \* history: the event last handled, and current_grid before it
    in_flight,        \* the kinds of requests spawned towards the remote editor
                      \* whose futures have not completed yet
    float_in,         \* inputs of win_float_anchor_pos (the pure-function check)
    float_out,        \* its result, None before the call
    mode_infos,       \* UIState.mode_infos, the list of the last ModeInfoSet
    current_mode,     \* UIState.current_mode, None until the first ModeChange
    mode_index,       \* history: the index of the last ModeChange that took effect
    sources           \* the delayed resizes on the main loop: the id the next one
                      \* gets, the ids scheduled, and the ids removed (history)

vars == <<grids, windows, current_grid, hl_defs, hl_changed, font, line_space,
          resize_on_flush, resize_source_id, wildmenu_shown, popupmenu, cmdline,
          tabline, css, calls, panicked, history, last_event, in_flight,
          float_in, float_out, mode_infos, current_mode,
          mode_index, sources>>

\* Option<T>: None, or Some(x).
None == <<>>
Some(x) == <<x>>
IsSome(o) == o # <<>>
Unwrap(o) == o[1]

\* An unset colour of a Highlight.
NoColor == "none"

\* ---------------------------------------------------------------- bounds

\* Grid ids the remote editor uses: 1..MaxGrid (1 is the primary grid).
MaxGrid == 3
GridIds == 1..MaxGrid

\* Grid sizes in cells (width, height) that GridResize / WindowPos carry.
GridSizes == {<<2, 2>>, <<4, 3>>}

\* Anchor rows / columns of WindowFloatPos: -MaxAnchor..MaxAnchor cells.
MaxAnchor == 2
AnchorCells == (0 - MaxAnchor)..MaxAnchor

\* Cursor cells that GridCursorGoto / PopupmenuShow carry.
Cells == {<<0, 0>>, <<1, 1>>}

\* ------------------------------------------------------------ fonts, cells

\* A Font, reduced to the cell it yields: w x h pixels at line spacing 0.
FontDefault == [name |-> "default", w |-> 2, h |-> 4]
FontBig == [name |-> "big", w |-> 3, h |-> 5]
Fonts == {FontDefault, FontBig}

LineSpaces == {0, 1}

\* Values of the guifont option; "?" is one Font::from_guifont rejects.
GuiFonts == {"default", "big", "?"}

\* Font::from_guifont: Ok(the font a guifont string names), None for Err.
from_guifont(s) ==
    CASE s = "default" -> Some(FontDefault)
      [] s = "big" -> Some(FontBig)
      [] OTHER -> None

\* Grid cell metrics for a font and a line spacing.
cell_width(f) == f.w
cell_height(f, ls) == f.h + ls

\* Grid::get_grid_metrics.
get_grid_metrics(g) ==
    [rows |-> g.rows, cols |-> g.cols,
     cell_width |-> cell_width(g.font),
     cell_height |-> cell_height(g.font, g.line_space),
     width |-> g.cols * cell_width(g.font),
     height |-> g.rows * cell_height(g.font, g.line_space)]

\* Grid::calc_size: the columns and rows that fit the grid's drawing area.
calc_size(g) ==
    <<g.alloc_w \div cell_width(g.font),
      g.alloc_h \div cell_height(g.font, g.line_space)>>

\* ------------------------------------------------------------- highlights

HlIds == {0, 1}
Colors == {"black", "white"}
Highlights ==
    {[foreground |-> NoColor, background |-> NoColor, special |-> NoColor],
     [foreground |-> "white", background |-> "black", special |-> NoColor]}

\* The (fg, bg, sp) triples DefaultColorsSet carries.
DefaultColors == {<<"white", "black", "white">>, <<"black", "white", "black">>}

\* The group names HlGroupSet acts on, and one it does not know.
HlGroupNames == {"Pmenu", "PmenuSel", "TabLine", "TabLineSel", "TabLineFill",
                 "Normal", "MsgSeparator", "Comment"}

\* The table a grid draws its cells with: the defaults and the id -> attributes map.
hl_table(h) ==
    [default_fg |-> h.default_fg, default_bg |-> h.default_bg,
     default_sp |-> h.default_sp, defs |-> h.defs]

\* --------------------------------------------------------------- the grid

\* Grid::new followed by Grid::resize: a grid of w x h cells with the given
\* font and line spacing; its drawing area asks for exactly its cells.
new_grid(f, ls, w, h, hl) ==
    [cols |-> w, rows |-> h, font |-> f, line_space |-> ls,
     alloc_w |-> w * cell_width(f), alloc_h |-> h * cell_height(f, ls),
     active |-> FALSE, cursor |-> <<0, 0>>, drawn |-> hl_table(hl),
     cells |-> None, mode |-> None]

\* Grid::set_mode: the grid draws its cursor in the given mode.
set_mode(g, mode) == [g EXCEPT !.mode = Some(mode)]

\* Grid::put_line: the cells of the segment are written.
put_line(g, segment) == [g EXCEPT !.cells = Some(segment)]

\* Grid::clear: the cells are blank again.
clear_grid(g) == [g EXCEPT !.cells = None]

\* Grid::scroll: the written cells move.
scroll_grid(g) ==
    [g EXCEPT !.cells = IF IsSome(@) THEN Some("scrolled") ELSE None]

\* Grid::resize.
resize_grid(g, w, h, hl) ==
    [g EXCEPT !.cols = w, !.rows = h,
              !.alloc_w = w * cell_width(g.font),
              !.alloc_h = h * cell_height(g.font, g.line_space),
              !.drawn = hl_table(hl)]

\* Grid::redraw.
redraw_grid(g, hl) == [g EXCEPT !.drawn = hl_table(hl)]

\* Grid::update_cell_metrics: the cells change, the drawing area does not.
update_cell_metrics(g, f, ls) == [g EXCEPT !.font = f, !.line_space = ls]

\* Removing a key from a map.
Remove(m, k) == [x \in DOMAIN m \ {k} |-> m[x]]

\* Inserting or overwriting a key of a map.
Insert(m, k, v) == [x \in DOMAIN m \cup {k} |-> IF x = k THEN v ELSE m[x]]

\* -------------------------------------------------------------- the window

Docked == "windows_container"
Floating == "windows_float_container"
External == "external_win"

\* The containers that hold a frame as their child: none for an unparented one.
Nowhere == {}

\* gtk container.remove(frame): the frame leaves the container if it is in it.
gtk_remove(frame_in, container) == frame_in \ {container}

\* gtk container.put / add(frame) that takes the frame whatever holds it.
gtk_put_unchecked(frame_in, container) == frame_in \cup {container}

\* gtk container.put / add(frame): refused when the frame still has a parent.
gtk_put(frame_in, container) ==
    IF frame_in = Nowhere THEN {container} ELSE frame_in

\* A window whose frame is held by the containers `held` from now on;
\* overlapped records that it was ever held by two at once.
attach(w, held) ==
    [w EXCEPT !.frame_in = held, !.overlapped = @ \/ Cardinality(held) > 1]

\* Window::new: the frame is put into `fixed` at (0, 0).
new_window(fixed, grid_id) ==
    [parent |-> fixed, frame_in |-> {fixed}, overlapped |-> FALSE,
     external_win |-> FALSE,
     x |-> 0, y |-> 0, w |-> 0, h |-> 0, shown |-> FALSE, grid_id |-> grid_id,
     scrollbar |-> FALSE,
     adj |-> [value |-> 0, lower |-> 0, upper |-> 0, step_increment |-> 0,
              page_increment |-> 0, page_size |-> 0],
     before |-> [parent |-> fixed, frame_in |-> Nowhere]]

\* Window::set_adjustment: the adjustment of the scrollbar is configured.
set_adjustment(w, value, lower, upper, step_increment, page_increment, page_size) ==
    [w EXCEPT !.adj = [value |-> value, lower |-> lower, upper |-> upper,
                       step_increment |-> step_increment,
                       page_increment |-> page_increment,
                       page_size |-> page_size]]

\* Window::hide_scrollbar.
hide_scrollbar(w) == [w EXCEPT !.scrollbar = FALSE]

\* Window::show_scrollbar.
show_scrollbar(w) == [w EXCEPT !.scrollbar = TRUE]

\* The window a placement event starts from: the one the grid has, with where
\* its frame is now remembered in `before` (history), or a new one in `fixed`.
window_entry(grid, fixed) ==
    IF grid \in DOMAIN windows
    THEN [windows[grid] EXCEPT !.before = [parent |-> windows[grid].parent,
                                          frame_in |-> windows[grid].frame_in]]
    ELSE new_window(fixed, grid)

set_parent_never(w, fixed) == w

\* Window::set_parent.
set_parent(w, fixed) ==
    IF w.parent # fixed
    THEN LET removed == attach(w, gtk_remove(w.frame_in, w.parent))
         IN [attach(removed, gtk_put(removed.frame_in, fixed)) EXCEPT
               !.parent = fixed]
    ELSE w

\* Window::resize.
resize_window(w, width, height) == [w EXCEPT !.w = width, !.h = height]

\* Window::set_external.
set_external(w, width, height) ==
    IF w.external_win
    THEN w
    ELSE LET removed == attach(w, gtk_remove(w.frame_in, w.parent))
         IN [attach(removed, gtk_put(removed.frame_in, External)) EXCEPT
               !.w = width, !.h = height, !.shown = TRUE, !.scrollbar = TRUE,
               !.external_win = TRUE]

\* Window::set_position.
set_position(w, x, y, width, height) ==
    LET back == IF w.external_win
                THEN LET removed == attach(w, gtk_remove(w.frame_in, External))
                     IN [attach(removed, gtk_put(removed.frame_in, w.parent))
                           EXCEPT !.external_win = FALSE]
                ELSE w
    IN [back EXCEPT !.x = x, !.y = y, !.w = width, !.h = height]

\* Window::show: show_all shows the frame and what it holds, the scrollbar
\* included.
show_window(w) == [w EXCEPT !.shown = TRUE, !.scrollbar = TRUE]

\* Window::hide.
hide_window(w) == [w EXCEPT !.shown = FALSE]

\* ------------------------------------------------- floating-window anchor

Anchors == {"NW", "NE", "SW", "SE"}

\* Anchor::is_west, Anchor::is_north.
is_west(a) == a \in {"NW", "SW"}
is_north(a) == a \in {"NW", "NE"}

\* f64::max.
fmax(a, b) == IF a >= b THEN a ELSE b

\* win_float_anchor_pos with the clamp of y left out.
win_float_anchor_pos_noclamp(evt, anchor_metrics, size, offset) ==
    LET x == IF is_west(evt.anchor)
             THEN offset[1] + anchor_metrics.cell_width * evt.anchor_col
             ELSE offset[1] + anchor_metrics.cell_width * evt.anchor_col - size[1]
        y == IF is_north(evt.anchor)
             THEN offset[2] + anchor_metrics.cell_height * evt.anchor_row
             ELSE offset[2] + anchor_metrics.cell_height * evt.anchor_row - size[2]
    IN <<fmax(x, 0), y>>

\* win_float_anchor_pos: size is (width, height), offset is (x_offset, y_offset).
win_float_anchor_pos(evt, anchor_metrics, size, offset) ==
    LET x == IF is_west(evt.anchor)
             THEN offset[1] + anchor_metrics.cell_width * evt.anchor_col
             ELSE offset[1] + anchor_metrics.cell_width * evt.anchor_col - size[1]
        y == IF is_north(evt.anchor)
             THEN offset[2] + anchor_metrics.cell_height * evt.anchor_row
             ELSE offset[2] + anchor_metrics.cell_height * evt.anchor_row - size[2]
    IN <<fmax(x, 0), fmax(y, 0)>>

\* An f64 that is the quotient n / d of two whole numbers, d > 0.
Frac(n, d) == <<n, d>>

\* The `as i64` cast of such an f64: the fraction is dropped, towards zero.
as_i64(q) ==
    IF q[1] >= 0 THEN q[1] \div q[2] ELSE 0 - ((0 - q[1]) \div q[2])

\* win_float_adjust_size with the rows reduced like the columns, without the
\* one row less.
win_float_adjust_size_rows_like_cols(grid_metrics, base_metrics, pos) ==
    LET x == pos[1]
        y == pos[2]
        ch == base_metrics.cell_height
        cw == base_metrics.cell_width
    IN <<IF grid_metrics.cols * cw + x > base_metrics.cols * cw
         THEN Some(Frac(base_metrics.cols * cw - x, cw))
         ELSE None,
         IF grid_metrics.rows * ch + y > base_metrics.rows * ch
         THEN Some(Frac(base_metrics.rows * ch - y, ch))
         ELSE None>>

\* win_float_adjust_size: (new cols, new rows), each None when the floating
\* grid stays within the primary grid on that axis.  The comparisons
\* rows + y / cell_height > base rows are made on whole numbers by
\* multiplying through with the cell size.
win_float_adjust_size(grid_metrics, base_metrics, pos) ==
    LET x == pos[1]
        y == pos[2]
        ch == base_metrics.cell_height
        cw == base_metrics.cell_width
    IN <<IF grid_metrics.cols * cw + x > base_metrics.cols * cw
         THEN Some(Frac(base_metrics.cols * cw - x, cw))
         ELSE None,
         IF grid_metrics.rows * ch + y > base_metrics.rows * ch
         THEN Some(Frac(base_metrics.rows * ch - y - ch, ch))
         ELSE None>>

\* -------------------------------------------------------------- the state

\* Highlight id 0 carries the default colours.
InitHlDefs ==
    [default_fg |-> "white", default_bg |-> "black", default_sp |-> "white",
     defs |-> [i \in {0} |-> [foreground |-> NoColor, background |-> NoColor,
                              special |-> NoColor]],
     groups |-> <<>>]

\* The font and line spacing a popupmenu, cmdline or tabline starts with.
InitSurface == [font |-> FontDefault, line_space |-> 0, colors |-> hl_table(InitHlDefs)]

\* The state after construction: the primary grid exists, is the current grid
\* and is the active one; nothing else does.
InitUI ==
    /\ grids = [i \in {1} |->
                  [new_grid(FontDefault, 0, 4, 3, InitHlDefs) EXCEPT !.active = TRUE]]
    /\ windows = <<>>
    /\ current_grid = 1
    /\ hl_defs = InitHlDefs
    /\ hl_changed = FALSE
    /\ font = FontDefault
    /\ line_space = 0
    /\ resize_on_flush = None
    /\ resize_source_id = None
    /\ wildmenu_shown = FALSE
    /\ popupmenu = InitSurface @@
                   [items |-> <<>>, selected |-> -1, anchor |-> None, shown |-> FALSE]
    /\ cmdline = InitSurface @@
                 [wildmenu_items |-> <<>>, wildmenu_selected |-> -1,
                  wildmenu_shown |-> FALSE]
    /\ tabline = InitSurface
    /\ css = None
    /\ calls = <<>>
    /\ panicked = FALSE
    /\ history = [font |-> None, line_space |-> None, default_colors |-> FALSE,
                  shown_on |-> None]
    /\ last_event = [name |-> "Init", grid |-> 0, cur |-> 1]
    /\ in_flight = {}
    /\ mode_infos = <<>>
    /\ current_mode = None
    /\ mode_index = None
    /\ sources = [next |-> 1, scheduled |-> {}, removed |-> {}]

Init ==
    /\ InitUI
    /\ float_in = None
    /\ float_out = None

\* The record of the event being handled.
Event(name, grid) == [name |-> name, grid |-> grid, cur |-> current_grid]

\* What a handler leaves alone, by part of the state.
NoHl == UNCHANGED <<hl_defs, hl_changed, css>>
NoOptions == UNCHANGED <<font, line_space, resize_on_flush, resize_source_id>>
NoHistory == UNCHANGED history
NoSurfaces == UNCHANGED <<wildmenu_shown, popupmenu, cmdline, tabline>>
NoFloatCheck == UNCHANGED <<float_in, float_out>>
NoModes == UNCHANGED <<mode_infos, current_mode, mode_index>>
NoSources == UNCHANGED sources

\* ------------------------------------------------------ outbound requests

\* One thing a handler asked of a collaborator: a request spawned towards the
\* remote editor, a glib source removed, a style sheet loaded, a surface call.
Call(name, args) == [call |-> name, args |-> args]

\* The calls of that name among cs, in order.
CallsOf(cs, name) == SelectSeq(cs, LAMBDA c : c.call = name)

\* The requests to the remote editor that are spawned as futures on the main
\* context (spawn_local): UI resize, grid resize, the scroll autocmd, the
\* error echo, mouse input.
Outbound == {"ui_try_resize", "ui_try_resize_grid", "command.GnvimScroll",
             "command.echom", "input_mouse"}

\* The kinds of requests among the calls cs.
Spawned(cs) == {cs[i].call : i \in DOMAIN cs} \cap Outbound

\* What a handler spawned is in flight from then on.
Submits == in_flight' = in_flight \cup Spawned(calls')

\* ------------------------------------------------- grid lifecycle handlers

\* The grids once UIState::grid_cursor_goto has left the previous current
\* grid: that grid is set inactive.
grid_cursor_goto_previous_kept == grids
grid_cursor_goto_previous == [grids EXCEPT ![current_grid].active = FALSE]

\* UIState::grid_cursor_goto.
GridCursorGoto(grid_id, row, col) ==
    /\ ~panicked
    /\ last_event' = Event("GridCursorGoto", grid_id)
    /\ IF grid_id # current_grid
       THEN IF current_grid \notin DOMAIN grids
            THEN /\ panicked' = TRUE
                 /\ UNCHANGED <<grids, current_grid>>
            ELSE LET left == grid_cursor_goto_previous
                 IN /\ current_grid' = grid_id
                    /\ IF grid_id \notin DOMAIN grids
                       THEN /\ panicked' = TRUE
                            /\ grids' = left
                       ELSE /\ panicked' = FALSE
                            /\ grids' = [left EXCEPT ![grid_id].active = TRUE,
                                                     ![grid_id].cursor = <<row, col>>]
       ELSE /\ UNCHANGED current_grid
            /\ IF grid_id \notin DOMAIN grids
               THEN /\ panicked' = TRUE
                    /\ UNCHANGED grids
               ELSE /\ panicked' = FALSE
                    /\ grids' = [grids EXCEPT ![grid_id].cursor = <<row, col>>]
    /\ calls' = <<>>
    /\ UNCHANGED windows
    /\ NoHl /\ NoOptions /\ NoSurfaces /\ NoFloatCheck /\ NoHistory /\ Submits /\ NoModes /\ NoSources

grid_resize_new_modeless(width, height) ==
    new_grid(font, line_space, width, height, hl_defs)

\* The grid UIState::grid_resize makes for an id it does not know: the current
\* font and line spacing, and the current mode when there is one.
grid_resize_new(width, height) ==
    LET g == new_grid(font, line_space, width, height, hl_defs)
    IN IF IsSome(current_mode) THEN set_mode(g, Unwrap(current_mode)) ELSE g

\* UIState::grid_resize.
GridResize(grid, width, height) ==
    /\ ~panicked
    /\ last_event' = Event("GridResize", grid)
    /\ IF grid \in DOMAIN grids
       THEN LET g == resize_grid(grids[grid], width, height, hl_defs)
                m == get_grid_metrics(g)
                hosts == {k \in DOMAIN windows : windows[k].grid_id = grid}
            IN /\ grids' = [grids EXCEPT ![grid] = g]
               /\ windows' = [k \in DOMAIN windows |->
                                IF k \in hosts
                                THEN resize_window(windows[k], m.width, m.height)
                                ELSE windows[k]]
       ELSE /\ grids' = Insert(grids, grid, grid_resize_new(width, height))
            /\ UNCHANGED windows
    /\ calls' = <<>>
    /\ UNCHANGED <<current_grid, panicked>>
    /\ NoHl /\ NoOptions /\ NoSurfaces /\ NoFloatCheck /\ NoHistory /\ Submits /\ NoModes /\ NoSources

\* The segments GridLine carries.
Segments == {"a", "b"}

\* UIState::grid_line.
GridLine(grid, segment) ==
    /\ ~panicked
    /\ last_event' = Event("GridLine", grid)
    /\ IF grid \notin DOMAIN grids
       THEN /\ panicked' = TRUE
            /\ UNCHANGED grids
       ELSE /\ panicked' = FALSE
            /\ grids' = [grids EXCEPT ![grid] = put_line(@, segment)]
    /\ calls' = <<>>
    /\ UNCHANGED <<windows, current_grid>>
    /\ NoHl /\ NoOptions /\ NoSurfaces /\ NoFloatCheck /\ NoHistory /\ Submits /\ NoModes /\ NoSources

\* UIState::grid_clear.
GridClear(grid) ==
    /\ ~panicked
    /\ last_event' = Event("GridClear", grid)
    /\ IF grid \notin DOMAIN grids
       THEN /\ panicked' = TRUE
            /\ UNCHANGED grids
       ELSE /\ panicked' = FALSE
            /\ grids' = [grids EXCEPT ![grid] = clear_grid(@)]
    /\ calls' = <<>>
    /\ UNCHANGED <<windows, current_grid>>
    /\ NoHl /\ NoOptions /\ NoSurfaces /\ NoFloatCheck /\ NoHistory /\ Submits /\ NoModes /\ NoSources

\* UIState::grid_scroll.
GridScroll(grid) ==
    /\ ~panicked
    /\ last_event' = Event("GridScroll", grid)
    /\ IF grid \notin DOMAIN grids
       THEN /\ panicked' = TRUE
            /\ calls' = <<>>
            /\ UNCHANGED grids
       ELSE /\ panicked' = FALSE
            /\ grids' = [grids EXCEPT ![grid] = scroll_grid(@)]
            /\ calls' = <<Call("command.GnvimScroll", <<>>)>>
    /\ UNCHANGED <<windows, current_grid>>
    /\ NoHl /\ NoOptions /\ NoSurfaces /\ NoFloatCheck /\ NoHistory /\ Submits /\ NoModes /\ NoSources

\* UIState::msg_set_pos.
MsgSetPos(grid, row) ==
    /\ ~panicked
    /\ last_event' = Event("MsgSetPos", grid)
    /\ IF 1 \notin DOMAIN grids \/ grid \notin DOMAIN grids
       THEN /\ panicked' = TRUE
            /\ calls' = <<>>
       ELSE LET base_metrics == get_grid_metrics(grids[1])
            IN /\ panicked' = FALSE
               /\ calls' = <<Call("msg_window.set_pos",
                                  <<grid, row,
                                    base_metrics.height
                                      - row * base_metrics.cell_height>>)>>
    /\ UNCHANGED <<grids, windows, current_grid>>
    /\ NoHl /\ NoOptions /\ NoSurfaces /\ NoFloatCheck /\ NoHistory /\ Submits /\ NoModes /\ NoSources

\* UIState::handle_notify, a gnvim event that failed to parse: the error is
\* echoed in the remote editor.
GnvimEventErr ==
    /\ ~panicked
    /\ last_event' = Event("GnvimEventErr", 0)
    /\ calls' = <<Call("command.echom", <<>>)>>
    /\ UNCHANGED <<grids, windows, current_grid, panicked>>
    /\ NoHl /\ NoOptions /\ NoSurfaces /\ NoFloatCheck /\ NoHistory /\ Submits /\ NoModes /\ NoSources

\* attach_grid_events: a mouse press, release, drag or wheel on a grid's
\* drawing area sends the input to the remote editor.
GridMouseEvent(grid) ==
    /\ ~panicked
    /\ grid \in DOMAIN grids
    /\ last_event' = Event("GridMouseEvent", grid)
    /\ calls' = <<Call("input_mouse", <<grid>>)>>
    /\ UNCHANGED <<grids, windows, current_grid, panicked>>
    /\ NoHl /\ NoOptions /\ NoSurfaces /\ NoFloatCheck /\ NoHistory /\ Submits /\ NoModes /\ NoSources

\* The mode lists ModeInfoSet carries (each entry a cursor shape), and the
\* indexes ModeChange carries.
ModeLists == {<<"block">>, <<"block", "vertical">>, <<"vertical", "block">>}
ModeIndexes == {-1, 0, 1, 2}

\* The (start_row, start_col, width, height) WindowPos carries.
WinPositions == {<<1, 1, 2, 2>>, <<0, 2, 4, 3>>}

\* UIState::mode_info_set.
ModeInfoSet(mode_info) ==
    /\ ~panicked
    /\ last_event' = Event("ModeInfoSet", 0)
    /\ mode_infos' = mode_info
    /\ calls' = <<>>
    /\ UNCHANGED <<grids, windows, current_grid, panicked, current_mode, mode_index>>
    /\ NoHl /\ NoOptions /\ NoSurfaces /\ NoFloatCheck /\ NoHistory /\ Submits /\ NoSources

\* Vec::get(index as usize): the entry, None when the index is out of range
\* (a negative index converts to an index past every list).
mode_infos_get(index) ==
    IF index >= 0 /\ index + 1 \in DOMAIN mode_infos
    THEN Some(mode_infos[index + 1])
    ELSE None

\* UIState::mode_change: the unwrap fails on an index out of range, before
\* anything is written.
ModeChange(index) ==
    /\ ~panicked
    /\ last_event' = Event("ModeChange", index)
    /\ LET mode == mode_infos_get(index)
       IN IF IsSome(mode)
          THEN /\ current_mode' = mode
               /\ mode_index' = Some(index)
               /\ grids' = [k \in DOMAIN grids |-> set_mode(grids[k], Unwrap(mode))]
               /\ UNCHANGED panicked
          ELSE /\ panicked' = TRUE
               /\ UNCHANGED <<grids, current_mode, mode_index>>
    /\ calls' = <<>>
    /\ UNCHANGED <<windows, current_grid, mode_infos>>
    /\ NoHl /\ NoOptions /\ NoSurfaces /\ NoFloatCheck /\ NoHistory /\ Submits /\ NoSources

\* How a spawned request ends: the remote editor answers, the request fails,
\* or its future is dropped without an answer.
Outcomes == {"ok", "err", "dropped"}

\* Whether the future of a request panics on the outcome: mouse input is
\* sent with .expect(), the other kinds log an Err.
submitted_panics(kind, outcome) == kind = "input_mouse" /\ outcome = "err"

\* The future of a spawned request completes on the main context.
Submitted(kind, outcome) ==
    /\ ~panicked
    /\ kind \in in_flight
    /\ in_flight' = in_flight \ {kind}
    /\ last_event' = Event("Submitted", 0)
    /\ panicked' = submitted_panics(kind, outcome)
    /\ calls' = IF outcome = "err" /\ ~submitted_panics(kind, outcome)
                THEN <<Call("error!", <<kind>>)>>
                ELSE <<>>
    /\ UNCHANGED <<grids, windows, current_grid>>
    /\ NoHl /\ NoOptions /\ NoSurfaces /\ NoFloatCheck /\ NoHistory /\ NoModes /\ NoSources

\* The value UIState::grid_destroy leaves in current_grid.
grid_destroy_cur_keep(grid) == current_grid
grid_destroy_current_grid(grid) == 1

\* The grids UIState::grid_destroy leaves.
grid_destroy_grids_all(grid) == Remove(Remove(grids, grid), 1)
grid_destroy_grids(grid) == Remove(grids, grid)

\* Drop for Window, run when an entry leaves the window collection: the frame
\* is taken out of its parent and an external surface is closed.  No calls when
\* no window is stored under the id.
drop_window(grid) ==
    IF grid \in DOMAIN windows
    THEN <<Call("parent.remove", <<grid>>)>>
         \o (IF windows[grid].external_win
             THEN <<Call("external_win.close", <<grid>>)>> ELSE <<>>)
    ELSE <<>>

grid_destroy_windows_kept(grid) == windows

\* UIState::grid_destroy, `self.windows.remove(&grid)`.
grid_destroy_windows(grid) ==
    IF grid \in DOMAIN windows THEN Remove(windows, grid) ELSE windows

\* UIState::grid_destroy.
GridDestroy(grid) ==
    /\ ~panicked
    /\ last_event' = Event("GridDestroy", grid)
    /\ grids' = grid_destroy_grids(grid)
    /\ windows' = grid_destroy_windows(grid)
    /\ current_grid' = grid_destroy_current_grid(grid)
    /\ calls' = drop_window(grid)
    /\ UNCHANGED panicked
    /\ NoHl /\ NoOptions /\ NoSurfaces /\ NoFloatCheck /\ NoHistory /\ Submits /\ NoModes /\ NoSources

window_pos_metrics_own(grid) == get_grid_metrics(grids[grid])

\* The metrics UIState::window_pos converts cells to pixels with: grid 1's.
window_pos_metrics(grid) == get_grid_metrics(grids[1])

\* UIState::window_pos.
WindowPos(grid, start_row, start_col, width, height) ==
    /\ ~panicked
    /\ last_event' = Event("WindowPos", grid)
    /\ IF grid \notin DOMAIN grids
       THEN /\ panicked' = TRUE
            /\ UNCHANGED <<grids, windows>>
       ELSE LET entry == IF grid \in DOMAIN windows
                         THEN set_parent(window_entry(grid, Docked), Docked)
                         ELSE window_entry(grid, Docked)
            IN IF 1 \notin DOMAIN grids
               THEN /\ panicked' = TRUE
                    /\ windows' = Insert(windows, grid, entry)
                    /\ UNCHANGED grids
               ELSE LET m == window_pos_metrics(grid)
                        x == start_col * m.cell_width
                        y == start_row * m.cell_height
                        w == width * m.cell_width
                        h == height * m.cell_height
                    IN /\ panicked' = FALSE
                       /\ windows' = Insert(windows, grid,
                                            show_window(set_position(entry, x, y, w, h)))
                       /\ grids' = [grids EXCEPT
                                      ![grid] = resize_grid(@, width, height, hl_defs)]
    /\ calls' = <<>>
    /\ UNCHANGED current_grid
    /\ NoHl /\ NoOptions /\ NoSurfaces /\ NoFloatCheck /\ NoHistory /\ Submits /\ NoModes /\ NoSources

\* UIState::window_external_pos.
WindowExternalPos(grid) ==
    /\ ~panicked
    /\ last_event' = Event("WindowExternalPos", grid)
    /\ IF grid \notin DOMAIN grids
       THEN /\ panicked' = TRUE
            /\ UNCHANGED <<grids, windows>>
       ELSE LET m == get_grid_metrics(grids[grid])
            IN /\ panicked' = FALSE
               /\ windows' = Insert(windows, grid,
                                    set_external(window_entry(grid, Floating),
                                                 m.width, m.height))
               /\ grids' = [grids EXCEPT
                              ![grid] = resize_grid(@, m.cols, m.rows, hl_defs)]
    /\ calls' = <<>>
    /\ UNCHANGED current_grid
    /\ NoHl /\ NoOptions /\ NoSurfaces /\ NoFloatCheck /\ NoHistory /\ Submits /\ NoModes /\ NoSources

viewport_fits_strictly(linecount, metrics) == linecount < metrics.rows

\* UIState::window_viewport: whether the lines fit the rows of the grid.
viewport_fits(linecount, metrics) == linecount <= metrics.rows

\* The (linecount, topline) WindowViewport carries.
Viewports == {<<2, 0>>, <<3, 1>>, <<5, 0>>, <<5, 2>>, <<5, 4>>}

\* UIState::window_viewport.  The first six arguments of the call are the six
\* parameters of Window::set_adjustment.
WindowViewport(grid, linecount, topline) ==
    /\ ~panicked
    /\ last_event' = Event("WindowViewport", grid)
    /\ IF grid \in DOMAIN windows
       THEN IF grid \notin DOMAIN grids
            THEN /\ panicked' = TRUE
                 /\ UNCHANGED windows
            ELSE LET metrics == get_grid_metrics(grids[grid])
                     value == metrics.cell_height * topline
                     max == metrics.cell_height * linecount
                 IN /\ panicked' = FALSE
                    /\ windows' =
                         [windows EXCEPT ![grid] =
                            IF viewport_fits(linecount, metrics)
                            THEN hide_scrollbar(@)
                            ELSE set_adjustment(show_scrollbar(@), value, 0, max,
                                                metrics.height, metrics.height,
                                                metrics.height)]
       ELSE UNCHANGED <<windows, panicked>>
    /\ calls' = <<>>
    /\ UNCHANGED <<grids, current_grid>>
    /\ NoHl /\ NoOptions /\ NoSurfaces /\ NoFloatCheck /\ NoHistory /\ Submits /\ NoModes /\ NoSources

\* UIState::window_hide.
WindowHide(grid_id) ==
    /\ ~panicked
    /\ last_event' = Event("WindowHide", grid_id)
    /\ IF grid_id \notin DOMAIN windows
       THEN /\ panicked' = TRUE
            /\ UNCHANGED windows
       ELSE /\ panicked' = FALSE
            /\ windows' = [windows EXCEPT ![grid_id] = hide_window(@)]
    /\ calls' = <<>>
    /\ UNCHANGED <<grids, current_grid>>
    /\ NoHl /\ NoOptions /\ NoSurfaces /\ NoFloatCheck /\ NoHistory /\ Submits /\ NoModes /\ NoSources

\* UIState::window_close.
WindowClose(grid_id) ==
    /\ ~panicked
    /\ last_event' = Event("WindowClose", grid_id)
    /\ windows' = Remove(windows, grid_id)
    /\ calls' = drop_window(grid_id)
    /\ UNCHANGED <<grids, current_grid, panicked>>
    /\ NoHl /\ NoOptions /\ NoSurfaces /\ NoFloatCheck /\ NoHistory /\ Submits /\ NoModes /\ NoSources

\* UIState::get_float_anchor_pos: the origin the anchor is relative to, None
\* when the anchor grid has no window (the unwrap fails).
get_float_anchor_pos(grid, anchor_grid) ==
    IF anchor_grid = 1 \/ anchor_grid = grid
    THEN Some(<<0, 0>>)
    ELSE IF anchor_grid \in DOMAIN windows
         THEN Some(<<windows[anchor_grid].x, windows[anchor_grid].y>>)
         ELSE None

\* The position UIState::window_float_pos computes: win_float_anchor_pos with
\* the metrics of the anchor grid, the pixel size of the grid and the origin
\* of get_float_anchor_pos.
float_pos(grid, anchor_grid, evt) ==
    LET anchor_metrics == get_grid_metrics(grids[anchor_grid])
        grid_metrics == get_grid_metrics(grids[grid])
    IN win_float_anchor_pos(evt, anchor_metrics,
                            <<grid_metrics.width, grid_metrics.height>>,
                            Unwrap(get_float_anchor_pos(grid, anchor_grid)))

\* The grid-resize request UIState::window_float_pos spawns for new_size, if any.
float_resize_calls(grid, grid_metrics, new_size) ==
    IF IsSome(new_size[1]) \/ IsSome(new_size[2])
    THEN <<Call("ui_try_resize_grid",
                <<grid,
                  as_i64(IF IsSome(new_size[1]) THEN Unwrap(new_size[1])
                         ELSE Frac(grid_metrics.cols, 1)),
                  as_i64(IF IsSome(new_size[2]) THEN Unwrap(new_size[2])
                         ELSE Frac(grid_metrics.rows, 1))>>)>>
    ELSE <<>>

\* The pixel size UIState::window_float_pos gives the window: the grid's
\* current one, not the one the grid would have after the requested resize.
float_window_size_adjusted(grid_metrics, new_size) ==
    <<IF IsSome(new_size[1])
      THEN as_i64(Unwrap(new_size[1])) * grid_metrics.cell_width
      ELSE grid_metrics.width,
      IF IsSome(new_size[2])
      THEN as_i64(Unwrap(new_size[2])) * grid_metrics.cell_height
      ELSE grid_metrics.height>>
float_window_size(grid_metrics, new_size) ==
    <<grid_metrics.width, grid_metrics.height>>

\* UIState::window_float_pos.
WindowFloatPos(grid, anchor_grid, anchor, anchor_row, anchor_col) ==
    /\ ~panicked
    /\ last_event' = Event("WindowFloatPos", grid)
    /\ IF \/ anchor_grid \notin DOMAIN grids
          \/ get_float_anchor_pos(grid, anchor_grid) = None
          \/ grid \notin DOMAIN grids
       THEN /\ panicked' = TRUE
            /\ calls' = <<>>
            /\ UNCHANGED windows
       ELSE LET offset == Unwrap(get_float_anchor_pos(grid, anchor_grid))
                entry == IF grid \in DOMAIN windows
                         THEN set_parent(window_entry(grid, Floating), Floating)
                         ELSE window_entry(grid, Floating)
                grid_metrics == get_grid_metrics(grids[grid])
                evt == [anchor |-> anchor, anchor_row |-> anchor_row,
                        anchor_col |-> anchor_col]
                pos == float_pos(grid, anchor_grid, evt)
            IN IF 1 \notin DOMAIN grids
               THEN /\ panicked' = TRUE
                    /\ calls' = <<>>
                    /\ windows' = Insert(windows, grid, entry)
               ELSE LET base_metrics == get_grid_metrics(grids[1])
                        new_size == win_float_adjust_size(grid_metrics,
                                                          base_metrics, pos)
                    IN /\ panicked' = FALSE
                       /\ calls' = float_resize_calls(grid, grid_metrics, new_size)
                       /\ windows' =
                            Insert(windows, grid,
                                   show_window(set_position(
                                     entry, pos[1], pos[2],
                                     float_window_size(grid_metrics, new_size)[1],
                                     float_window_size(grid_metrics, new_size)[2])))
    /\ UNCHANGED <<grids, current_grid>>
    /\ NoHl /\ NoOptions /\ NoSurfaces /\ NoFloatCheck /\ NoHistory /\ Submits /\ NoModes /\ NoSources

\* ------------------------------------------------------ highlight handlers

\* UIState::default_colors_set.
DefaultColorsSet(fg, bg, sp) ==
    /\ ~panicked
    /\ last_event' = Event("DefaultColorsSet", 0)
    /\ LET hl == [hl_defs EXCEPT !.default_fg = fg, !.default_bg = bg,
                                 !.default_sp = sp,
                                 !.defs[0] = [foreground |-> fg, background |-> bg,
                                              special |-> sp]]
       IN /\ hl_defs' = hl
          /\ grids' = [g \in DOMAIN grids |-> redraw_grid(grids[g], hl)]
    /\ hl_changed' = TRUE
    /\ history' = [history EXCEPT !.default_colors = TRUE]
    /\ calls' = <<>>
    /\ UNCHANGED <<windows, current_grid, css, panicked>>
    /\ NoOptions /\ NoSurfaces /\ NoFloatCheck /\ Submits /\ NoModes /\ NoSources

\* The dirty flag UIState::hl_attr_define leaves.
hl_attr_define_hl_changed == hl_changed

\* UIState::hl_attr_define.
HlAttrDefine(id, hl) ==
    /\ ~panicked
    /\ last_event' = Event("HlAttrDefine", 0)
    /\ hl_defs' = [hl_defs EXCEPT !.defs = Insert(@, id, hl)]
    /\ hl_changed' = hl_attr_define_hl_changed
    /\ calls' = <<>>
    /\ UNCHANGED <<grids, windows, current_grid, css, panicked>>
    /\ NoOptions /\ NoSurfaces /\ NoFloatCheck /\ NoHistory /\ Submits /\ NoModes /\ NoSources

\* The roles (HlGroup) UIState::hl_group_set aliases a group name to.
hl_group_roles(name) ==
    CASE name = "Pmenu" -> {"Pmenu", "Wildmenu"}
      [] name = "PmenuSel" -> {"PmenuSel", "WildmenuSel"}
      [] name = "TabLine" -> {"Tabline"}
      [] name = "TabLineSel" -> {"TablineSel", "CmdlineBorder"}
      [] name = "TabLineFill" -> {"TablineFill"}
      [] name = "Normal" -> {"Cmdline"}
      [] name = "MsgSeparator" -> {"MsgSeparator"}
      [] OTHER -> {}

\* UIState::hl_group_set.
HlGroupSet(name, hl_id) ==
    /\ ~panicked
    /\ last_event' = Event("HlGroupSet", 0)
    /\ hl_defs' = [hl_defs EXCEPT !.groups =
                     [r \in DOMAIN @ \cup hl_group_roles(name) |->
                        IF r \in hl_group_roles(name) THEN hl_id ELSE @[r]]]
    /\ hl_changed' = TRUE
    /\ calls' = <<>>
    /\ UNCHANGED <<grids, windows, current_grid, css, panicked>>
    /\ NoOptions /\ NoSurfaces /\ NoFloatCheck /\ NoHistory /\ Submits /\ NoModes /\ NoSources

\* --------------------------------------------------------- option handlers

\* The ResizeOptions option_set goes on from: the pending ones if there are
\* any, else the primary grid's font and line spacing.
take_or_seed_always_seed ==
    IF 1 \in DOMAIN grids
    THEN [font |-> grids[1].font, line_space |-> grids[1].line_space]
    ELSE Unwrap(resize_on_flush)
take_or_seed ==
    IF IsSome(resize_on_flush)
    THEN Unwrap(resize_on_flush)
    ELSE [font |-> grids[1].font, line_space |-> grids[1].line_space]

\* UIState::option_set, OptionSet::GuiFont.
OptionSetGuiFont(guifont) ==
    /\ ~panicked
    /\ last_event' = Event("OptionSetGuiFont", 0)
    /\ LET f == IF IsSome(from_guifont(guifont))
                THEN Unwrap(from_guifont(guifont))
                ELSE FontDefault
       IN /\ font' = f
          /\ IF resize_on_flush = None /\ 1 \notin DOMAIN grids
             THEN /\ panicked' = TRUE
                  /\ UNCHANGED <<resize_on_flush, history>>
             ELSE /\ panicked' = FALSE
                  /\ resize_on_flush' = Some([take_or_seed EXCEPT !.font = f])
                  /\ history' =
                       [history EXCEPT !.font = Some(guifont)]
    /\ calls' = <<>>
    /\ UNCHANGED <<grids, windows, current_grid, line_space, resize_source_id>>
    /\ NoHl /\ NoSurfaces /\ NoFloatCheck /\ Submits /\ NoModes /\ NoSources

\* UIState::option_set, OptionSet::LineSpace.
OptionSetLineSpace(val) ==
    /\ ~panicked
    /\ last_event' = Event("OptionSetLineSpace", 0)
    /\ line_space' = val
    /\ IF resize_on_flush = None /\ 1 \notin DOMAIN grids
       THEN /\ panicked' = TRUE
            /\ UNCHANGED <<resize_on_flush, history>>
       ELSE /\ panicked' = FALSE
            /\ resize_on_flush' = Some([take_or_seed EXCEPT !.line_space = val])
            /\ history' =
                 [history EXCEPT !.line_space = Some(val)]
    /\ calls' = <<>>
    /\ UNCHANGED <<grids, windows, current_grid, font, resize_source_id>>
    /\ NoHl /\ NoSurfaces /\ NoFloatCheck /\ Submits /\ NoModes /\ NoSources

\* UIState::option_set, OptionSet::NotSupported.
OptionSetNotSupported ==
    /\ ~panicked
    /\ last_event' = Event("OptionSetNotSupported", 0)
    /\ calls' = <<>>
    /\ UNCHANGED <<grids, windows, current_grid, panicked>>
    /\ NoHl /\ NoOptions /\ NoSurfaces /\ NoFloatCheck /\ NoHistory /\ Submits /\ NoModes /\ NoSources

\* ------------------------------------------------------------------- flush

\* The grid whose calc_size UIState::flush sends: grid 1 of the grids whose
\* cell metrics it has just updated (gs), not of the grids before the update.
flush_sized_grid_stale(gs) == grids[1]
flush_sized_grid(gs) == gs[1]

\* What UIState::flush leaves in resize_on_flush.
flush_resize_on_flush_kept == resize_on_flush
flush_resize_on_flush == None

\* Popupmenu / Cmdline / Tabline::set_font and set_line_space.
set_font_and_space(surface, opts) ==
    [surface EXCEPT !.font = opts.font, !.line_space = opts.line_space]

\* Popupmenu / Cmdline / Tabline::set_colors.
set_colors(surface, hl) == [surface EXCEPT !.colors = hl]

\* The colour of a role's highlight, which: "foreground" or "background".
group_color(hl, role, which) ==
    IF role \in DOMAIN hl.groups /\ hl.groups[role] \in DOMAIN hl.defs
    THEN hl.defs[hl.groups[role]][which]
    ELSE NoColor

\* The style sheet UIState::flush derives from the highlight table.
style_sheet(hl) ==
    [bg |-> hl.default_bg,
     slider |-> hl.default_fg,
     scroll_bg |-> IF group_color(hl, "CmdlineBorder", "background") # NoColor
                   THEN group_color(hl, "CmdlineBorder", "background")
                   ELSE hl.default_bg,
     msgsep |-> IF group_color(hl, "MsgSeparator", "foreground") # NoColor
                THEN group_color(hl, "MsgSeparator", "foreground")
                ELSE hl.default_fg]

\* glib::source::source_remove: the source is off the main loop and will not
\* be dispatched.
source_remove(id) ==
    [sources EXCEPT !.scheduled = @ \ {id}, !.removed = @ \cup {id}]

flush_sources_kept == sources

\* The delayed resizes UIState::flush leaves scheduled: the one whose id is in
\* resize_source_id is removed.
flush_sources ==
    IF IsSome(resize_source_id)
    THEN source_remove(Unwrap(resize_source_id))
    ELSE sources

\* The delayed resizes one session schedules at most.
MaxSource == 3

\* The drawing area of grid 1 was resized: a delayed UI resize is scheduled
\* and its id kept in resize_source_id, after an earlier one that has not
\* fired is removed.
DaResize ==
    /\ ~panicked
    /\ sources.next <= MaxSource
    /\ last_event' = Event("DaResize", sources.next)
    /\ LET removed == IF IsSome(resize_source_id)
                      THEN source_remove(Unwrap(resize_source_id))
                      ELSE sources
       IN sources' = [removed EXCEPT !.next = @ + 1,
                                     !.scheduled = @ \cup {sources.next}]
    /\ resize_source_id' = Some(sources.next)
    /\ calls' = IF IsSome(resize_source_id)
                THEN <<Call("source_remove", <<>>)>> ELSE <<>>
    /\ UNCHANGED <<grids, windows, current_grid, panicked, font, line_space,
                   resize_on_flush>>
    /\ NoHl /\ NoSurfaces /\ NoFloatCheck /\ NoHistory /\ Submits /\ NoModes

\* A scheduled delayed resize fires: the UI-resize request is submitted and
\* resize_source_id is cleared.
DelayedResize(id) ==
    /\ ~panicked
    /\ id \in sources.scheduled
    /\ last_event' = Event("DelayedResize", id)
    /\ sources' = [sources EXCEPT !.scheduled = @ \ {id}]
    /\ resize_source_id' = None
    /\ calls' = <<Call("ui_try_resize", <<>>)>>
    /\ UNCHANGED <<grids, windows, current_grid, panicked, font, line_space,
                   resize_on_flush>>
    /\ NoHl /\ NoSurfaces /\ NoFloatCheck /\ NoHistory /\ Submits /\ NoModes

\* Whether UIState::flush regenerates the theme.
flush_regenerates == hl_changed

\* UIState::flush.  Grid::flush presents what each grid has drawn; it does
\* not draw the cells again.
Flush ==
    /\ ~panicked
    /\ last_event' = Event("Flush", 0)
    /\ history' = [history EXCEPT !.font = None, !.line_space = None,
                                  !.default_colors = FALSE]
    /\ resize_on_flush' = flush_resize_on_flush
    /\ IF IsSome(resize_on_flush)
       THEN LET opts == Unwrap(resize_on_flush)
                gs == [g \in DOMAIN grids |->
                         update_cell_metrics(grids[g], opts.font, opts.line_space)]
            IN /\ grids' = gs
               /\ IF 1 \notin DOMAIN grids
                  THEN /\ panicked' = TRUE
                       /\ calls' = <<>>
                       /\ UNCHANGED <<resize_source_id, sources, popupmenu, cmdline,
                                      tabline, hl_changed, css>>
                  ELSE /\ panicked' = FALSE
                       /\ resize_source_id' = None
                       /\ sources' = flush_sources
                       /\ calls' =
                            (IF IsSome(resize_source_id)
                             THEN <<Call("source_remove", <<>>)>> ELSE <<>>)
                            \o <<Call("ui_try_resize", calc_size(flush_sized_grid(gs)))>>
                            \o (IF flush_regenerates
                                THEN <<Call("css_provider.load_from_data", <<>>)>>
                                ELSE <<>>)
                       /\ IF flush_regenerates
                          THEN /\ popupmenu' = set_colors(
                                      set_font_and_space(popupmenu, opts), hl_defs)
                               /\ cmdline' = set_colors(
                                      set_font_and_space(cmdline, opts), hl_defs)
                               /\ tabline' = set_colors(
                                      set_font_and_space(tabline, opts), hl_defs)
                               /\ css' = Some(style_sheet(hl_defs))
                               /\ hl_changed' = FALSE
                          ELSE /\ popupmenu' = set_font_and_space(popupmenu, opts)
                               /\ cmdline' = set_font_and_space(cmdline, opts)
                               /\ tabline' = set_font_and_space(tabline, opts)
                               /\ UNCHANGED <<css, hl_changed>>
       ELSE /\ UNCHANGED <<grids, resize_source_id, sources, panicked>>
            /\ IF flush_regenerates
               THEN /\ popupmenu' = set_colors(popupmenu, hl_defs)
                    /\ cmdline' = set_colors(cmdline, hl_defs)
                    /\ tabline' = set_colors(tabline, hl_defs)
                    /\ css' = Some(style_sheet(hl_defs))
                    /\ hl_changed' = FALSE
                    /\ calls' = <<Call("css_provider.load_from_data", <<>>)>>
               ELSE /\ calls' = <<>>
                    /\ UNCHANGED <<popupmenu, cmdline, tabline, css, hl_changed>>
    /\ UNCHANGED <<windows, current_grid, hl_defs, font, line_space, wildmenu_shown>>
    /\ NoFloatCheck /\ Submits /\ NoModes

\* ------------------------------------------------------ popupmenu handlers

\* The item lists and selections PopupmenuShow / PopupmenuSelect carry.
PopupItems == {<<"a">>, <<"a", "b">>}
Selections == {-1, 0}

\* Grid::get_rect_for_cell: the pixel rectangle of a cell.
get_rect_for_cell(g, row, col) ==
    [x |-> col * cell_width(g.font),
     y |-> row * cell_height(g.font, g.line_space),
     width |-> cell_width(g.font),
     height |-> cell_height(g.font, g.line_space)]

\* What UIState::popupmenu_show leaves in wildmenu_shown when grid is -1.
popupmenu_show_wildmenu_forgotten == wildmenu_shown
popupmenu_show_wildmenu == TRUE

\* UIState::popupmenu_show.
PopupmenuShow(grid, items, row, col, selected) ==
    /\ ~panicked
    /\ last_event' = Event("PopupmenuShow", grid)
    /\ history' = [history EXCEPT !.shown_on = Some(grid)]
    /\ IF grid = -1
       THEN /\ wildmenu_shown' = popupmenu_show_wildmenu
            /\ cmdline' = [cmdline EXCEPT !.wildmenu_items = items,
                                          !.wildmenu_shown = TRUE]
            /\ calls' = <<Call("cmdline.wildmenu_show", <<>>)>>
            /\ UNCHANGED <<popupmenu, panicked>>
       ELSE /\ UNCHANGED <<wildmenu_shown, cmdline>>
            /\ LET with_items == [popupmenu EXCEPT !.items = items]
               IN IF current_grid \notin DOMAIN grids \/ grid \notin DOMAIN windows
                  THEN /\ panicked' = TRUE
                       /\ popupmenu' = with_items
                       /\ calls' = <<Call("popupmenu.set_items", <<>>)>>
                  ELSE LET cell == get_rect_for_cell(grids[current_grid], row, col)
                           rect == [cell EXCEPT !.x = @ + windows[grid].x,
                                                !.y = @ + windows[grid].y]
                       IN /\ panicked' = FALSE
                          /\ popupmenu' = [with_items EXCEPT !.anchor = Some(rect),
                                                             !.selected = selected,
                                                             !.shown = TRUE]
                          /\ calls' = <<Call("popupmenu.set_items", <<>>),
                                        Call("popupmenu.set_anchor", <<>>),
                                        Call("popupmenu.select", <<selected>>),
                                        Call("popupmenu.show", <<>>)>>
    /\ UNCHANGED <<grids, windows, current_grid, tabline>>
    /\ NoHl /\ NoOptions /\ NoFloatCheck /\ Submits /\ NoModes /\ NoSources

\* Whether UIState::popupmenu_hide / popupmenu_select act on the wildmenu.
popupmenu_routes_to_wildmenu == wildmenu_shown

\* UIState::popupmenu_hide.
PopupmenuHide ==
    /\ ~panicked
    /\ last_event' = Event("PopupmenuHide", 0)
    /\ IF popupmenu_routes_to_wildmenu
       THEN /\ cmdline' = [cmdline EXCEPT !.wildmenu_shown = FALSE]
            /\ calls' = <<Call("cmdline.wildmenu_hide", <<>>)>>
            /\ UNCHANGED popupmenu
       ELSE /\ popupmenu' = [popupmenu EXCEPT !.shown = FALSE]
            /\ calls' = <<Call("popupmenu.hide", <<>>)>>
            /\ UNCHANGED cmdline
    /\ UNCHANGED <<grids, windows, current_grid, wildmenu_shown, tabline, panicked>>
    /\ NoHl /\ NoOptions /\ NoFloatCheck /\ NoHistory /\ Submits /\ NoModes /\ NoSources

\* UIState::popupmenu_select.
PopupmenuSelect(selected) ==
    /\ ~panicked
    /\ last_event' = Event("PopupmenuSelect", 0)
    /\ IF popupmenu_routes_to_wildmenu
       THEN /\ cmdline' = [cmdline EXCEPT !.wildmenu_selected = selected]
            /\ calls' = <<Call("cmdline.wildmenu_select", <<selected>>)>>
            /\ UNCHANGED popupmenu
       ELSE /\ popupmenu' = [popupmenu EXCEPT !.selected = selected]
            /\ calls' = <<Call("popupmenu.select", <<selected>>)>>
            /\ UNCHANGED cmdline
    /\ UNCHANGED <<grids, windows, current_grid, wildmenu_shown, tabline, panicked>>
    /\ NoHl /\ NoOptions /\ NoFloatCheck /\ NoHistory /\ Submits /\ NoModes /\ NoSources

\* The grid lifecycle: resize, destroy, cursor.
NextGrid ==
    \/ \E g \in GridIds, c \in Cells : GridCursorGoto(g, c[1], c[2])
    \/ \E g \in GridIds, s \in GridSizes : GridResize(g, s[1], s[2])
    \/ \E g \in GridIds : GridDestroy(g)

SpecGrid == Init /\ [][NextGrid]_vars

\* Resize on flush: the font and line-space options, the flush that applies
\* them, and grids coming and going in between.
NextResize ==
    \/ \E f \in GuiFonts : OptionSetGuiFont(f)
    \/ \E v \in LineSpaces : OptionSetLineSpace(v)
    \/ OptionSetNotSupported
    \/ Flush
    \/ \E g \in {1, 2} : GridResize(g, 2, 2)
    \/ \E g \in {1, 2} : GridDestroy(g)

SpecResize == Init /\ [][NextResize]_vars

\* Highlights: the three table-changing events, the flush that regenerates
\* the theme, and a second grid appearing.
NextHl ==
    \/ \E c \in DefaultColors : DefaultColorsSet(c[1], c[2], c[3])
    \/ \E id \in HlIds, hl \in Highlights : HlAttrDefine(id, hl)
    \/ \E name \in {"TabLineSel", "MsgSeparator", "Comment"} : HlGroupSet(name, 1)
    \/ Flush
    \/ GridResize(2, 2, 2)

SpecHl == Init /\ [][NextHl]_vars

\* The popup menu in its two roles, over a second grid with a docked window.
NextPopup ==
    \/ \E g \in {-1, 1, 2}, items \in PopupItems, sel \in Selections :
         PopupmenuShow(g, items, 1, 1, sel)
    \/ PopupmenuHide
    \/ \E sel \in Selections : PopupmenuSelect(sel)
    \/ GridResize(2, 2, 2)
    \/ \E g \in {1, 2} : WindowPos(g, 1, 0, 2, 2)
    \/ \E g \in {1, 2} : GridCursorGoto(g, 0, 0)

SpecPopup == Init /\ [][NextPopup]_vars

\* Floating windows: a grid of two sizes to float, a docked window to anchor
\* to, a font option that new grids take before the primary grid does, and
\* the float placement at a north-west and at a south-east corner.
FloatAnchors == {"NW", "SE"}

NextFloat ==
    \/ GridResize(2, 2, 2)
    \/ \E sz \in GridSizes : GridResize(3, sz[1], sz[2])
    \/ OptionSetGuiFont("big")
    \/ WindowPos(2, 1, 1, 2, 2)
    \/ \E ag \in {1, 2}, a \in FloatAnchors, r \in AnchorCells, c \in {0, MaxAnchor} :
         WindowFloatPos(3, ag, a, r, c)

SpecFloat == Init /\ [][NextFloat]_vars

\* The origin of a float: grid 3 floats relative to grid 1, to grid 2 (docked
\* or not) and to itself, while new grids can have a font grid 1 has not yet.
NextFloatOrigin ==
    \/ \E g \in {2, 3} : GridResize(g, 2, 2)
    \/ OptionSetGuiFont("big")
    \/ WindowPos(2, 1, 1, 2, 2)
    \/ \E ag \in {1, 2, 3}, a \in FloatAnchors : WindowFloatPos(3, ag, a, 1, 1)

SpecFloatOrigin == Init /\ [][NextFloatOrigin]_vars

\* Delayed resizes: the drawing area is resized (a delayed UI resize is
\* scheduled), the delay runs out, and options and flushes come in between.
NextDelayed ==
    \/ DaResize
    \/ \E id \in 1..MaxSource : DelayedResize(id)
    \/ \E f \in GuiFonts : OptionSetGuiFont(f)
    \/ \E v \in LineSpaces : OptionSetLineSpace(v)
    \/ Flush
    \/ \E o \in Outcomes : Submitted("ui_try_resize", o)

SpecDelayed == Init /\ [][NextDelayed]_vars

\* The anchor of the completion menu: two grids in windows at different
\* places, the cursor on either grid, and a menu shown for either grid.
NextPopupAnchor ==
    \/ GridResize(2, 2, 2)
    \/ WindowPos(1, 0, 0, 4, 3)
    \/ WindowPos(2, 1, 1, 2, 2)
    \/ \E g \in {1, 2} : GridCursorGoto(g, 0, 0)
    \/ \E g \in {1, 2}, items \in PopupItems : PopupmenuShow(g, items, 1, 1, 0)
    \/ PopupmenuHide

SpecPopupAnchor == Init /\ [][NextPopupAnchor]_vars

\* Viewports: a grid of two heights in a window that comes and goes, shown
\* with fewer lines than rows, as many, and more, in either font.
NextViewport ==
    \/ \E sz \in GridSizes : GridResize(2, sz[1], sz[2])
    \/ OptionSetGuiFont("big")
    \/ WindowPos(2, 1, 1, 2, 2)
    \/ WindowHide(2)
    \/ WindowClose(2)
    \/ \E g \in {1, 2}, v \in Viewports : WindowViewport(g, v[1], v[2])

SpecViewport == Init /\ [][NextViewport]_vars

\* Fonts and windows: the font and line-space options, the flush that applies
\* them, and a second grid that is created, placed and destroyed in between.
NextFonts ==
    \/ \E f \in GuiFonts : OptionSetGuiFont(f)
    \/ \E v \in LineSpaces : OptionSetLineSpace(v)
    \/ Flush
    \/ GridResize(2, 2, 2)
    \/ \E p \in WinPositions : WindowPos(2, p[1], p[2], p[3], p[4])
    \/ GridDestroy(2)

SpecFonts == Init /\ [][NextFonts]_vars

\* Window placement: one grid's window docked, floated, externalized, hidden
\* and closed in every order.
NextWindow ==
    \/ \E g \in {2, 3} : GridResize(g, 2, 2)
    \/ \E g \in {2, 3} : WindowPos(g, 1, 1, 2, 2)
    \/ \E g \in {2, 3}, a \in FloatAnchors : WindowFloatPos(g, 1, a, 1, 1)
    \/ \E g \in {2, 3} : WindowExternalPos(g)
    \/ \E g \in {2, 3} : WindowHide(g)
    \/ \E g \in {2, 3} : WindowClose(g)
    \/ \E g \in {2, 3} : GridDestroy(g)

SpecWindow == Init /\ [][NextWindow]_vars

\* Events that name grids and windows that exist and that do not: grid 2
\* comes and goes, grid 3 never exists.
NextUnknown ==
    \/ GridResize(2, 2, 2)
    \/ \E g \in {2, 3} : GridDestroy(g)
    \/ \E g \in {1, 2, 3} : GridCursorGoto(g, 1, 1)
    \/ \E g \in {2, 3} : GridLine(g, "a")
    \/ \E g \in {2, 3} : GridClear(g)
    \/ \E g \in {2, 3} : GridScroll(g)
    \/ \E g \in {2, 3} : WindowPos(g, 1, 1, 2, 2)
    \/ \E g \in {2, 3}, ag \in {1, 3} : WindowFloatPos(g, ag, "NW", 1, 1)
    \/ \E g \in {2, 3} : WindowExternalPos(g)
    \/ \E g \in {2, 3} : WindowHide(g)
    \/ \E g \in {2, 3} : WindowClose(g)
    \/ \E g \in {2, 3} : MsgSetPos(g, 1)
    \/ \E g \in {2, 3} : PopupmenuShow(g, <<"a">>, 1, 1, 0)

SpecUnknown == Init /\ [][NextUnknown]_vars

\* Requests to the remote editor and how they end: every kind is spawned,
\* and completes, fails or is dropped while further events arrive.
NextOutbound ==
    \/ GridResize(2, 2, 2)
    \/ \E g \in {1, 2} : GridScroll(g)
    \/ OptionSetLineSpace(1)
    \/ Flush
    \/ WindowFloatPos(2, 1, "NW", 2, 2)
    \/ GnvimEventErr
    \/ \E g \in {1, 2} : GridMouseEvent(g)
    \/ \E kind \in Outbound, outcome \in Outcomes : Submitted(kind, outcome)

SpecOutbound == Init /\ [][NextOutbound]_vars

\* Modes: the mode list, the mode changes, and grids that are created, placed
\* in a window, resized and destroyed while fonts and modes change.
NextMode ==
    \/ \E l \in ModeLists : ModeInfoSet(l)
    \/ \E i \in ModeIndexes : ModeChange(i)
    \/ \E g \in {1, 2}, s \in GridSizes : GridResize(g, s[1], s[2])
    \/ OptionSetGuiFont("big")
    \/ \E p \in WinPositions : WindowPos(2, p[1], p[2], p[3], p[4])
    \/ GridDestroy(2)

SpecMode == Init /\ [][NextMode]_vars

\* C2: destroying the grid that is CurrentGrid leaves CurrentGrid = 1, and
\* destroying a grid other than 1 never removes grid 1 from the collection.
C2_DestroyCurrentResetsToPrimary ==
    [][\A g \in GridIds :
         GridDestroy(g) =>
           /\ (g = current_grid => current_grid' = 1)
           /\ (g # 1 /\ 1 \in DOMAIN grids => 1 \in DOMAIN grids')]_vars

\* The current grid, other than grid 1, has just been destroyed while grid 1 exists.
C2_Witness ==
    /\ last_event.name = "GridDestroy"
    /\ last_event.grid = last_event.cur
    /\ last_event.grid # 1
    /\ last_event.grid \notin DOMAIN grids
    /\ 1 \in DOMAIN grids
    /\ current_grid = 1

\* C3: destroying a grid other than CurrentGrid leaves CurrentGrid unchanged
\* (stated for the destroys the protocol allows: the primary grid stays).
C3_DestroyOtherKeepsCurrent ==
    [][\A g \in GridIds :
         GridDestroy(g) /\ g # current_grid /\ g # 1 =>
           current_grid' = current_grid]_vars

\* C4: while no handler has aborted on an unknown grid and grid 1 has not been
\* destroyed, CurrentGrid names a grid of the collection.
C4_CurrentGridExists ==
    (~panicked /\ 1 \in DOMAIN grids) => current_grid \in DOMAIN grids

\* The cursor has gone to a grid other than 1, and later that grid was destroyed.
C4_Witness ==
    /\ ~panicked
    /\ 1 \in DOMAIN grids
    /\ last_event.name = "GridDestroy"
    /\ last_event.cur = 3
    /\ last_event.grid = 3
    /\ current_grid \in DOMAIN grids

\* ------------------------------------- win_float_anchor_pos on its inputs

\* The inputs of one call: the event, the anchor grid's metrics, the floating
\* grid's pixel size and the offset origin.
FloatInputs ==
    [evt : [anchor : Anchors, anchor_row : AnchorCells, anchor_col : AnchorCells],
     metrics : {get_grid_metrics(new_grid(f, ls, 4, 3, InitHlDefs)) :
                  f \in Fonts, ls \in LineSpaces},
     size : {<<4, 8>>, <<9, 5>>},
     offset : {<<0, 0>>, <<5, 3>>}]

InitAnchor ==
    /\ InitUI
    /\ float_in \in {Some(i) : i \in FloatInputs}
    /\ float_out = None

\* One call of win_float_anchor_pos.
ApplyFloatAnchorPos ==
    /\ float_out = None
    /\ float_out' = LET i == Unwrap(float_in)
                    IN Some(win_float_anchor_pos(i.evt, i.metrics, i.size, i.offset))
    /\ UNCHANGED <<grids, windows, current_grid, hl_defs, hl_changed, font,
                   line_space, resize_on_flush, resize_source_id, wildmenu_shown,
                   popupmenu, cmdline, tabline, css, calls, panicked,
                   history, last_event, in_flight, float_in, mode_infos,
                   current_mode, mode_index, sources>>

SpecAnchor == InitAnchor /\ [][ApplyFloatAnchorPos]_vars

\* ------------------------------------------- the float-resize negotiation

\* The float events of a negotiation: every corner, an anchor inside the
\* primary grid and one past its last row, its last column.
NegotiatedFloats ==
    [anchor : Anchors, anchor_row : {1, 4}, anchor_col : {1, 5}]

\* The sizes the floating grid starts a negotiation with.
NegotiatedSizes == GridSizes \cup {<<5, 4>>}

\* A session in which the remote editor sends one WindowFloatPos (kept in
\* float_in) again and again.
InitNegotiation ==
    /\ InitUI
    /\ float_in \in {Some([evt |-> e]) : e \in NegotiatedFloats}
    /\ float_out = None

\* The remote editor creates the floating grid.
FloatGridCreated ==
    /\ 3 \notin DOMAIN grids
    /\ \E sz \in NegotiatedSizes : GridResize(3, sz[1], sz[2])

\* The remote editor delivers the WindowFloatPos of the session.
FloatPlaced ==
    /\ IsSome(float_in)
    /\ LET e == Unwrap(float_in).evt
       IN WindowFloatPos(3, 1, e.anchor, e.anchor_row, e.anchor_col)

\* The remote editor answers the grid-resize request of the WindowFloatPos
\* just handled with a GridResize to exactly the requested cols and rows.
ResizeAnswered ==
    /\ last_event.name = "WindowFloatPos"
    /\ \E cs \in 1..5, rs \in 1..4 :
         /\ calls = <<Call("ui_try_resize_grid", <<3, cs, rs>>)>>
         /\ GridResize(3, cs, rs)

NextNegotiation ==
    \/ FloatGridCreated
    \/ FloatPlaced
    \/ ResizeAnswered

SpecNegotiation == InitNegotiation /\ [][NextNegotiation]_vars

\* C1: for every corner, anchor row/col, cell size, floating size and offset,
\* x = max(0, x_offset + cell_width*anchor_col - (width at an east corner)) and
\* y = max(0, y_offset + cell_height*anchor_row - (height at a south corner)),
\* so neither coordinate is negative.
C1_FloatAnchorPos ==
    IsSome(float_out) =>
      LET i == Unwrap(float_in)
          east == i.evt.anchor \in {"NE", "SE"}
          south == i.evt.anchor \in {"SW", "SE"}
          x == i.offset[1] + i.metrics.cell_width * i.evt.anchor_col
                 - (IF east THEN i.size[1] ELSE 0)
          y == i.offset[2] + i.metrics.cell_height * i.evt.anchor_row
                 - (IF south THEN i.size[2] ELSE 0)
          r == Unwrap(float_out)
      IN /\ r[1] = (IF x < 0 THEN 0 ELSE x)
         /\ r[2] = (IF y < 0 THEN 0 ELSE y)
         /\ r[1] >= 0
         /\ r[2] >= 0

\* A south-east call whose unclamped x is positive and whose unclamped y is
\* negative has returned.
C1_Witness ==
    /\ IsSome(float_out)
    /\ Unwrap(float_in).evt.anchor = "SE"
    /\ Unwrap(float_in).offset[2]
         + Unwrap(float_in).metrics.cell_height * Unwrap(float_in).evt.anchor_row
         - Unwrap(float_in).size[2] < 0
    /\ Unwrap(float_out)[1] > 0
    /\ Unwrap(float_out)[2] = 0

\* ------------------------------------------------------- resize on flush

\* The font a guifont value stands for: the one it names, Font::default() when
\* Font::from_guifont rejects it.
FontOf(guifont) ==
    IF guifont = "big" THEN FontBig ELSE FontDefault

\* C5: a Flush that follows one or more font / line-space OptionSets submits
\* exactly one UI-resize request, carrying what grid 1 measures once its cell
\* metrics are those of the pending font and line spacing; a Flush with no
\* pending resize submits none.  (A Flush without grid 1 aborts: the protocol
\* never destroys grid 1.)
C5_OneResizePerFlush ==
    [][Flush =>
         LET sent == CallsOf(calls', "ui_try_resize")
             since == IsSome(history.font)
                        \/ IsSome(history.line_space)
         IN /\ (since /\ 1 \in DOMAIN grids =>
                  /\ Len(sent) = 1
                  /\ grids'[1].font = Unwrap(resize_on_flush).font
                  /\ grids'[1].line_space = Unwrap(resize_on_flush).line_space
                  /\ sent[1].args =
                       <<grids[1].alloc_w \div cell_width(grids'[1].font),
                         grids[1].alloc_h
                           \div cell_height(grids'[1].font, grids'[1].line_space)>>)
            /\ (resize_on_flush = None => Len(sent) = 0)]_vars

\* A Flush has sent a UI-resize whose columns and rows differ from the cells
\* grid 1 had: the new metrics decided the request.
C5_Witness ==
    /\ last_event.name = "Flush"
    /\ 1 \in DOMAIN grids
    /\ Len(CallsOf(calls, "ui_try_resize")) = 1
    /\ CallsOf(calls, "ui_try_resize")[1].args[1] # grids[1].cols
    /\ CallsOf(calls, "ui_try_resize")[1].args[2] # grids[1].rows

\* C6: between two Flushes the pending resize is absent iff no font or
\* line-space OptionSet arrived since the last Flush; when present its font is
\* that of the most recent GuiFont since the last Flush, else grid 1's font,
\* and its line spacing that of the most recent LineSpace, else grid 1's.
C6_PendingResizeCoalesces ==
    ~panicked =>
      /\ resize_on_flush = None <=>
           (history.font = None /\ history.line_space = None)
      /\ (IsSome(resize_on_flush) /\ IsSome(history.font) =>
            Unwrap(resize_on_flush).font = FontOf(Unwrap(history.font)))
      /\ (IsSome(resize_on_flush) /\ IsSome(history.line_space) =>
            Unwrap(resize_on_flush).line_space = Unwrap(history.line_space))
      /\ (IsSome(resize_on_flush) /\ 1 \in DOMAIN grids =>
            /\ history.font = None =>
                 Unwrap(resize_on_flush).font = grids[1].font
            /\ history.line_space = None =>
                 Unwrap(resize_on_flush).line_space = grids[1].line_space)

\* A line spacing was set first and a font after it, before any Flush: the
\* record holds both, and neither is grid 1's.
C6_Witness ==
    /\ ~panicked
    /\ 1 \in DOMAIN grids
    /\ last_event.name = "OptionSetGuiFont"
    /\ IsSome(history.line_space)
    /\ IsSome(resize_on_flush)
    /\ Unwrap(resize_on_flush).font = FontBig
    /\ Unwrap(resize_on_flush).line_space = 1
    /\ grids[1].font = FontDefault
    /\ grids[1].line_space = 0

\* C7: a font or line-space OptionSet changes no grid and submits nothing; the
\* next Flush gives every grid, the popup menu, the command line and the tab
\* line the pending font and line spacing and leaves no pending resize.
C7_OptionsApplyAtFlush ==
    [][/\ ((\E f \in GuiFonts : OptionSetGuiFont(f))
             \/ (\E v \in LineSpaces : OptionSetLineSpace(v))) =>
            (grids' = grids /\ calls' = <<>>)
       /\ (Flush /\ IsSome(resize_on_flush) /\ 1 \in DOMAIN grids) =>
            LET opts == Unwrap(resize_on_flush)
            IN /\ DOMAIN grids' = DOMAIN grids
               /\ \A g \in DOMAIN grids' :
                    /\ grids'[g].font = opts.font
                    /\ grids'[g].line_space = opts.line_space
               /\ \A surface \in {popupmenu', cmdline', tabline'} :
                    /\ surface.font = opts.font
                    /\ surface.line_space = opts.line_space
               /\ resize_on_flush' = None
       /\ Flush => resize_on_flush' = None]_vars

\* A Flush has given two grids and the three surfaces a font and a line
\* spacing other than the initial ones.
C7_Witness ==
    /\ last_event.name = "Flush"
    /\ ~panicked
    /\ resize_on_flush = None
    /\ DOMAIN grids = {1, 2}
    /\ \A g \in DOMAIN grids : grids[g].font = FontBig /\ grids[g].line_space = 1
    /\ popupmenu.font = FontBig /\ popupmenu.line_space = 1
    /\ cmdline.font = FontBig /\ cmdline.line_space = 1
    /\ tabline.font = FontBig /\ tabline.line_space = 1

\* ------------------------------------------------- highlight dirty flag

\* C8: each of HlAttrDefine, HlGroupSet and DefaultColorsSet sets the
\* highlight-dirty flag, so the Flush right after one regenerates the theme.
C8_HighlightEventsSetDirty ==
    [][/\ ((\E id \in HlIds, hl \in Highlights : HlAttrDefine(id, hl))
             \/ (\E name \in HlGroupNames, id \in HlIds : HlGroupSet(name, id))
             \/ (\E c \in DefaultColors : DefaultColorsSet(c[1], c[2], c[3]))) =>
            hl_changed' = TRUE
       /\ (Flush /\ last_event.name \in {"HlAttrDefine", "HlGroupSet",
                                          "DefaultColorsSet"}) =>
            /\ Len(CallsOf(calls', "css_provider.load_from_data")) = 1
            /\ css' = Some(style_sheet(hl_defs))]_vars

\* C9: a Flush that comes after a DefaultColorsSet, whatever highlight events
\* came before it, leaves every grid drawn with the current highlight table,
\* regenerates the theme exactly once and clears the dirty flag; a Flush that
\* finds the flag clear regenerates nothing.
C9_DefaultColorsThenFlush ==
    [][Flush =>
         LET regenerated == Len(CallsOf(calls', "css_provider.load_from_data"))
         IN /\ (history.default_colors /\ ~panicked') =>
                 /\ \A g \in DOMAIN grids' : grids'[g].drawn = hl_table(hl_defs')
                 /\ regenerated = 1
                 /\ hl_changed' = FALSE
            /\ ~hl_changed =>
                 /\ regenerated = 0
                 /\ css' = css
                 /\ popupmenu'.colors = popupmenu.colors
                 /\ cmdline'.colors = cmdline.colors
                 /\ tabline'.colors = tabline.colors]_vars

\* --------------------------------------------------- wildmenu routing

\* C10: PopupmenuShow with grid -1 sets wildmenu_shown, and the PopupmenuHide
\* that follows that show hides the command line's wildmenu and leaves the
\* completion popup menu alone.
C10_WildmenuShowThenHide ==
    [][/\ (\E items \in PopupItems, sel \in Selections :
             PopupmenuShow(-1, items, 1, 1, sel)) => wildmenu_shown' = TRUE
       /\ (PopupmenuHide /\ history.shown_on = Some(-1)) =>
            /\ calls' = <<Call("cmdline.wildmenu_hide", <<>>)>>
            /\ cmdline'.wildmenu_shown = FALSE
            /\ popupmenu' = popupmenu]_vars

\* The wildmenu was shown while the completion menu was up, and the hide that
\* followed took the wildmenu down and left the completion menu up.
C10_Witness ==
    /\ last_event.name = "PopupmenuHide"
    /\ history.shown_on = Some(-1)
    /\ wildmenu_shown
    /\ ~cmdline.wildmenu_shown
    /\ cmdline.wildmenu_items # <<>>
    /\ popupmenu.shown
    /\ calls = <<Call("cmdline.wildmenu_hide", <<>>)>>

\* C11: PopupmenuSelect and PopupmenuHide act on the surface of the most
\* recent PopupmenuShow: the command line's wildmenu when that show had grid
\* -1, the completion popup menu when it named a grid, also when an earlier
\* show was a wildmenu show.
C11_RoutesToLatestShow ==
    [][/\ (PopupmenuHide /\ IsSome(history.shown_on)) =>
            IF Unwrap(history.shown_on) = -1
            THEN /\ calls' = <<Call("cmdline.wildmenu_hide", <<>>)>>
                 /\ popupmenu' = popupmenu
            ELSE /\ calls' = <<Call("popupmenu.hide", <<>>)>>
                 /\ cmdline' = cmdline
       /\ \A sel \in Selections :
            (PopupmenuSelect(sel) /\ IsSome(history.shown_on)) =>
              IF Unwrap(history.shown_on) = -1
              THEN /\ calls' = <<Call("cmdline.wildmenu_select", <<sel>>)>>
                   /\ popupmenu' = popupmenu
              ELSE /\ calls' = <<Call("popupmenu.select", <<sel>>)>>
                   /\ cmdline' = cmdline]_vars

\* ------------------------------------------------- floating placement

\* v is the whole number the f64 n / d becomes when cast to i64 (d > 0): the
\* fraction is dropped towards zero.
IsTruncation(v, n, d) ==
    IF n >= 0
    THEN v * d <= n /\ n < (v + 1) * d
    ELSE v * d >= n /\ n > (v - 1) * d

\* C12 as stated: WindowFloatPos submits a grid-resize request for the target
\* grid iff floating_rows + y/primary_cell_height > primary_rows or
\* floating_cols + x/primary_cell_width > primary_cols at the computed (x, y),
\* at most one per event, with rows exactly primary_rows - y/cell_height - 1
\* when the row bound is exceeded (else the grid's rows) and cols exactly
\* primary_cols - x/cell_width when the column bound is exceeded (else the
\* grid's cols); a float that fits, anchored NW at (0, 0) on the primary
\* grid, is placed at (0, 0) with no request.
C12_FloatResizeRequestExact ==
    [][/\ (last_event'.name = "WindowFloatPos" /\ ~panicked') =>
           LET ch == cell_height(grids[1].font, grids[1].line_space)
               cw == cell_width(grids[1].font)
               x == windows'[3].x
               y == windows'[3].y
               rows_over == grids[3].rows * ch + y > grids[1].rows * ch
               cols_over == grids[3].cols * cw + x > grids[1].cols * cw
               sent == CallsOf(calls', "ui_try_resize_grid")
           IN /\ Len(sent) = (IF rows_over \/ cols_over THEN 1 ELSE 0)
              /\ (rows_over \/ cols_over) =>
                   /\ sent[1].args[1] = 3
                   /\ IF cols_over
                      THEN sent[1].args[2] * cw = grids[1].cols * cw - x
                      ELSE sent[1].args[2] = grids[3].cols
                   /\ IF rows_over
                      THEN sent[1].args[3] * ch = grids[1].rows * ch - y - ch
                      ELSE sent[1].args[3] = grids[3].rows
       /\ (WindowFloatPos(3, 1, "NW", 0, 0) /\ ~panicked'
             /\ grids[3].rows <= grids[1].rows
             /\ grids[3].cols <= grids[1].cols) =>
            /\ windows'[3].x = 0
            /\ windows'[3].y = 0
            /\ calls' = <<>>]_vars

\* C12, amended: as stated, except that the rows and the cols of the request
\* are the stated quotients with their fraction dropped towards zero (the
\* request carries whole numbers; y / primary_cell_height is not whole when
\* the anchor is fractional or the grids' cells differ).
C12_FloatResizeRequest ==
    [][/\ (last_event'.name = "WindowFloatPos" /\ ~panicked') =>
           LET ch == cell_height(grids[1].font, grids[1].line_space)
               cw == cell_width(grids[1].font)
               x == windows'[3].x
               y == windows'[3].y
               rows_over == grids[3].rows * ch + y > grids[1].rows * ch
               cols_over == grids[3].cols * cw + x > grids[1].cols * cw
               sent == CallsOf(calls', "ui_try_resize_grid")
           IN /\ Len(sent) = (IF rows_over \/ cols_over THEN 1 ELSE 0)
              /\ (rows_over \/ cols_over) =>
                   /\ sent[1].args[1] = 3
                   /\ IF cols_over
                      THEN IsTruncation(sent[1].args[2],
                                        grids[1].cols * cw - x, cw)
                      ELSE sent[1].args[2] = grids[3].cols
                   /\ IF rows_over
                      THEN IsTruncation(sent[1].args[3],
                                        grids[1].rows * ch - y - ch, ch)
                      ELSE sent[1].args[3] = grids[3].rows
       /\ (WindowFloatPos(3, 1, "NW", 0, 0) /\ ~panicked'
             /\ grids[3].rows <= grids[1].rows
             /\ grids[3].cols <= grids[1].cols) =>
            /\ windows'[3].x = 0
            /\ windows'[3].y = 0
            /\ calls' = <<>>]_vars

\* A float was placed below the primary grid's last row but within its
\* columns, at a y that is not a whole number of primary rows: one request,
\* with the grid's own cols and fewer rows.
C12_Witness ==
    /\ last_event.name = "WindowFloatPos"
    /\ ~panicked
    /\ 3 \in DOMAIN windows
    /\ windows[3].y % cell_height(grids[1].font, grids[1].line_space) # 0
    /\ Len(CallsOf(calls, "ui_try_resize_grid")) = 1
    /\ calls[1].args[2] = grids[3].cols
    /\ calls[1].args[3] < grids[3].rows

\* C13: WindowFloatPos leaves the target grid's cell dimensions (and every
\* grid) as they were; whether or not it submits a grid-resize request, the
\* window ends at the computed (x, y) with the grid's current pixel size and
\* is shown by the same event.  (The position is compared for the events
\* with the first row above the anchor grid or the last row, the first or the
\* last column.)
C13_FloatShownAtCurrentSize ==
    [][/\ (last_event'.name = "WindowFloatPos" /\ ~panicked') =>
            /\ grids' = grids
            /\ windows'[3].w = grids[3].cols * cell_width(grids[3].font)
            /\ windows'[3].h =
                 grids[3].rows * cell_height(grids[3].font, grids[3].line_space)
            /\ windows'[3].shown
            /\ windows'[3].frame_in = {Floating}
       /\ \A ag \in {1, 2}, a \in FloatAnchors, r \in {-1, MaxAnchor},
             c \in {0, MaxAnchor} :
            (WindowFloatPos(3, ag, a, r, c) /\ ~panicked') =>
              LET ox == IF ag = 1 THEN 0 ELSE windows[ag].x
                  oy == IF ag = 1 THEN 0 ELSE windows[ag].y
                  x == ox + cell_width(grids[ag].font) * c
                         - (IF a \in {"NE", "SE"}
                            THEN grids[3].cols * cell_width(grids[3].font)
                            ELSE 0)
                  y == oy + cell_height(grids[ag].font, grids[ag].line_space) * r
                         - (IF a \in {"SW", "SE"}
                            THEN grids[3].rows
                                   * cell_height(grids[3].font, grids[3].line_space)
                            ELSE 0)
              IN /\ windows'[3].x = (IF x < 0 THEN 0 ELSE x)
                 /\ windows'[3].y = (IF y < 0 THEN 0 ELSE y)]_vars

\* A float that reaches past the primary grid was placed: a request went out,
\* and the window is shown at the grid's unchanged size, which is larger than
\* the requested one.
C13_Witness ==
    /\ last_event.name = "WindowFloatPos"
    /\ ~panicked
    /\ Len(CallsOf(calls, "ui_try_resize_grid")) = 1
    /\ calls[1].args[3] < grids[3].rows
    /\ windows[3].shown
    /\ windows[3].h = grids[3].rows * cell_height(grids[3].font, grids[3].line_space)
    /\ windows[3].y > 0

\* ------------------------------------------------- window attachment

UIStateUnchanged ==
    UNCHANGED <<grids, windows, current_grid, hl_defs, hl_changed, font,
                line_space, resize_on_flush, resize_source_id, wildmenu_shown,
                popupmenu, cmdline, tabline, css, mode_infos, current_mode>>

\* C15: a GridLine for a grid id that has no grid changes no grid's contents
\* and does not stop the processing: the events after it are still handled.
C15_GridLineUnknownNonFatal ==
    [][(last_event'.name = "GridLine" /\ last_event'.grid \notin DOMAIN grids) =>
         /\ grids' = grids
         /\ ~panicked']_vars

\* C16: an event that names a grid or window that does not exist either
\* completes or aborts with the UI state as it was before the event: an
\* aborted GridCursorGoto leaves CurrentGrid and the active flags alone, an
\* aborted PopupmenuShow leaves the popup menu's items alone.
C16_AbortLeavesState ==
    [][panicked' => UIStateUnchanged]_vars

\* C17: when the future of a request to the remote editor completes, with
\* success, with a failure or dropped, the UI state is untouched and nothing
\* is raised into the event processing: later events are handled as before.
C17_SubmissionOutcomeIgnored ==
    [][last_event'.name = "Submitted" =>
         /\ UIStateUnchanged
         /\ ~panicked']_vars

\* C18: GridDestroy of an id without a grid and WindowClose of an id without
\* a window leave the grids, the windows, CurrentGrid and the active flags as
\* they were.
C18_DestroyAbsentNoOp ==
    [][/\ (last_event'.name = "GridDestroy"
             /\ last_event'.grid \notin DOMAIN grids) => UIStateUnchanged
       /\ (last_event'.name = "WindowClose"
             /\ last_event'.grid \notin DOMAIN windows) => UIStateUnchanged]_vars

\* C19: HlGroupSet with a name that is none of the seven recognised group
\* names leaves the UI state unchanged, the role table and the
\* highlight-dirty flag included.
C19_UnknownGroupNoOp ==
    [][(\E id \in HlIds : HlGroupSet("Comment", id)) => UIStateUnchanged]_vars

\* ------------------------------------------------- cursor

\* C20: GridCursorGoto(g, row, col) with g other than CurrentGrid sets the
\* previous current grid inactive, g active, CurrentGrid to g and g's cursor
\* to (row, col), and touches no other grid; with g = CurrentGrid it changes
\* that grid's cursor and nothing else.
C20_CursorGoto ==
    [][\A g \in GridIds, c \in Cells :
         (GridCursorGoto(g, c[1], c[2]) /\ ~panicked') =>
           IF g # current_grid
           THEN /\ current_grid' = g
                /\ DOMAIN grids' = DOMAIN grids
                /\ grids'[current_grid] = [grids[current_grid] EXCEPT !.active = FALSE]
                /\ grids'[g] = [grids[g] EXCEPT !.active = TRUE, !.cursor = c]
                /\ \A o \in DOMAIN grids \ {g, current_grid} : grids'[o] = grids[o]
           ELSE /\ current_grid' = current_grid
                /\ grids' = [grids EXCEPT ![g].cursor = c]]_vars

\* The cursor went from the active grid 1 to grid 2, at cell (1, 1).
C20_Witness ==
    /\ last_event = [name |-> "GridCursorGoto", grid |-> 2, cur |-> 1]
    /\ ~panicked
    /\ current_grid = 2
    /\ grids[2].active
    /\ grids[2].cursor = <<1, 1>>
    /\ ~grids[1].active

\* C21: in every reachable state each window is stored under the id of the grid
\* it hosts and that grid is in the grid collection; a GridDestroy(g) step
\* leaves neither grid g nor a window for g.
C21_WindowsHostGrids ==
    [][/\ \A k \in DOMAIN windows' :
            windows'[k].grid_id = k /\ k \in DOMAIN grids'
       /\ (last_event'.name = "GridDestroy" =>
            /\ last_event'.grid \notin DOMAIN grids'
            /\ last_event'.grid \notin DOMAIN windows')]_vars

\* Grid 2 and its window were destroyed while grid 3 keeps its window.
C21_Witness ==
    /\ last_event.name = "GridDestroy" /\ last_event.grid = 2
    /\ Len(calls) = 1 /\ calls[1].call = "parent.remove"
    /\ 2 \notin DOMAIN grids /\ 2 \notin DOMAIN windows
    /\ 3 \in DOMAIN windows /\ windows[3].grid_id = 3
\* C22: GridResize(id, w, h) creates the grid when the id is unknown, with the
\* current font, line spacing and current mode, and otherwise resizes the
\* existing grid in place; afterwards the grid has w x h cells and a window
\* hosting the grid has the grid's new pixel size, within the same event.
C22_GridResize ==
    [][\A g \in {1, 2}, s \in GridSizes :
         GridResize(g, s[1], s[2]) =>
           /\ DOMAIN grids' = DOMAIN grids \cup {g}
           /\ \A k \in DOMAIN grids : k # g => grids'[k] = grids[k]
           /\ grids'[g].cols = s[1] /\ grids'[g].rows = s[2]
           /\ IF g \in DOMAIN grids
              THEN /\ grids'[g].font = grids[g].font
                   /\ grids'[g].line_space = grids[g].line_space
                   /\ grids'[g].mode = grids[g].mode
                   /\ grids'[g].cursor = grids[g].cursor
                   /\ grids'[g].cells = grids[g].cells
                   /\ grids'[g].active = grids[g].active
              ELSE /\ grids'[g].font = font
                   /\ grids'[g].line_space = line_space
                   /\ grids'[g].mode = current_mode
           /\ \A k \in DOMAIN windows' :
                windows'[k].grid_id = g =>
                  /\ windows'[k].w = s[1] * cell_width(grids'[g].font)
                  /\ windows'[k].h =
                       s[2] * cell_height(grids'[g].font, grids'[g].line_space)]_vars

\* Grid 2 was created in a mode and with the big font, put in a window of
\* 2 x 2 cells of grid 1, and then resized to 4 x 3 cells of its own.
C22_Witness ==
    /\ last_event.name = "GridResize" /\ last_event.grid = 2
    /\ 2 \in DOMAIN windows /\ 2 \in DOMAIN grids
    /\ grids[2].mode = Some("vertical") /\ grids[2].font = FontBig
    /\ grids[1].font = FontDefault
    /\ grids[2].cols = 4 /\ grids[2].rows = 3
    /\ windows[2].w = 4 * cell_width(FontBig)
    /\ windows[2].h = 3 * cell_height(FontBig, 0)

\* C23: WindowPos for a grid places its window at (start_col*cw1,
\* start_row*ch1) with size (width*cw1, height*ch1), cw1 and ch1 being grid
\* 1's cell width and height, not the target grid's; afterwards the target
\* grid has exactly width x height cells.
C23_WindowPos ==
    [][\A p \in WinPositions :
         (WindowPos(2, p[1], p[2], p[3], p[4]) /\ ~panicked') =>
            LET cw1 == cell_width(grids[1].font)
                ch1 == cell_height(grids[1].font, grids[1].line_space)
            IN /\ windows'[2].x = p[2] * cw1
               /\ windows'[2].y = p[1] * ch1
               /\ windows'[2].w = p[3] * cw1
               /\ windows'[2].h = p[4] * ch1
               /\ grids'[2].cols = p[3]
               /\ grids'[2].rows = p[4]]_vars

\* Grid 2 has the big font and grid 1 the default one when grid 2 is placed
\* at row 0, column 2 with 4 x 3 cells: the pixels are those of grid 1's cells.
C23_Witness ==
    /\ last_event.name = "WindowPos" /\ last_event.grid = 2 /\ ~panicked
    /\ grids[2].font = FontBig /\ grids[1].font = FontDefault
    /\ windows[2].x = 2 * cell_width(FontDefault) /\ windows[2].y = 0
    /\ windows[2].w = 4 * cell_width(FontDefault)
    /\ windows[2].h = 3 * cell_height(FontDefault, 0)
    /\ grids[2].cols = 4 /\ grids[2].rows = 3

\* C24: the placement of a window is that of the last placement event for its
\* grid.  After WindowPos the window has no external surface and its frame is
\* in the docked container; after WindowFloatPos it has no external surface
\* and its frame is in the floating container; after WindowExternalPos it has
\* an external surface and its frame is in neither container; and no other
\* event, nor a placement event for another grid, moves the frame.
C24_PlacementIsLastEvent ==
    [][LET name == last_event'.name
           g == last_event'.grid
           placing == name \in {"WindowPos", "WindowFloatPos", "WindowExternalPos"}
       IN /\ (name = "WindowPos" /\ ~panicked' =>
                ~windows'[g].external_win /\ windows'[g].frame_in = {Docked})
          /\ (name = "WindowFloatPos" /\ ~panicked' =>
                ~windows'[g].external_win /\ windows'[g].frame_in = {Floating})
          /\ (name = "WindowExternalPos" /\ ~panicked' =>
                windows'[g].external_win /\ windows'[g].frame_in = {External})
          /\ \A k \in DOMAIN windows \cap DOMAIN windows' :
                ~(placing /\ g = k) =>
                   /\ windows'[k].external_win = windows[k].external_win
                   /\ windows'[k].frame_in = windows[k].frame_in]_vars

\* The window of grid 2 was on its external surface, and WindowPos brought it
\* to the docked container while the window of grid 3 stays floating.
C24_Witness ==
    /\ last_event.name = "WindowPos" /\ last_event.grid = 2 /\ ~panicked
    /\ windows[2].before.frame_in = {External}
    /\ windows[2].frame_in = {Docked} /\ ~windows[2].external_win
    /\ 3 \in DOMAIN windows /\ windows[3].frame_in = {Floating}

\* C25: for WindowFloatPos the offset origin is (0, 0) when the anchor grid is
\* grid 1 or the target grid itself, and otherwise the (x, y) last set on the
\* window hosting the anchor grid; when the anchor grid is the target grid
\* itself the position is the one the event would have given with grid 1 as
\* its anchor grid.
C25_FloatOrigin ==
    [][\A ag \in {1, 2, 3}, a \in FloatAnchors :
         (WindowFloatPos(3, ag, a, 1, 1) /\ ~panicked') =>
            LET evt == [anchor |-> a, anchor_row |-> 1, anchor_col |-> 1]
                origin == IF ag \in {1, 3}
                          THEN <<0, 0>>
                          ELSE <<windows[ag].x, windows[ag].y>>
                size == <<get_grid_metrics(grids[3]).width,
                          get_grid_metrics(grids[3]).height>>
            IN /\ <<windows'[3].x, windows'[3].y>> =
                    win_float_anchor_pos(evt, get_grid_metrics(grids[ag]),
                                         size, origin)
               /\ (ag = 3 =>
                     <<windows'[3].x, windows'[3].y>> = float_pos(3, 1, evt))]_vars

\* C26: when Flush applies a pending resize, a scheduled delayed resize is
\* canceled before the new UI-resize request is submitted: after that Flush
\* no delayed resize is scheduled, and a delayed resize that was canceled
\* never fires.
C26_FlushCancelsDelayed ==
    [][/\ (last_event'.name = "Flush" /\ IsSome(resize_on_flush) /\ ~panicked' =>
             /\ sources'.scheduled = {}
             /\ resize_source_id' = None
             /\ (sources.scheduled # {} =>
                   /\ calls'[1].call = "source_remove"
                   /\ calls'[2].call = "ui_try_resize"
                   /\ sources.scheduled \subseteq sources'.removed))
       /\ (last_event'.name = "DelayedResize" =>
             last_event'.grid \notin sources.removed)]_vars

\* A Flush applied a pending resize while a delayed resize was scheduled: the
\* delayed one was removed, then the request was submitted.
C26_Witness ==
    /\ last_event.name = "Flush" /\ ~panicked
    /\ Len(calls) >= 2 /\ calls[1].call = "source_remove"
    /\ calls[2].call = "ui_try_resize"
    /\ sources.removed # {} /\ sources.scheduled = {}
    /\ resize_source_id = None /\ resize_on_flush = None

\* C28: PopupmenuShow with a real grid id anchors the menu at the rectangle of
\* cell (row, col) on the current grid, translated by the (x, y) of the window
\* hosting the current grid, whatever grid the event names.
C28_PopupAnchor ==
    [][(/\ last_event'.name = "PopupmenuShow"
        /\ ~panicked'
        /\ current_grid \in DOMAIN windows) =>
          LET cell == get_rect_for_cell(grids[current_grid], 1, 1)
          IN popupmenu'.anchor =
               Some([cell EXCEPT !.x = @ + windows[current_grid].x,
                                 !.y = @ + windows[current_grid].y])]_vars

C27_CurrentMode ==
    [][/\ (IsSome(current_mode') =>
             /\ IsSome(mode_index')
             /\ IsSome(mode_infos_get(Unwrap(mode_index)))'
             /\ current_mode' = Some(mode_infos'[Unwrap(mode_index') + 1]))
       /\ (last_event'.name = "ModeChange"
             /\ ~IsSome(mode_infos_get(last_event'.grid)) =>
               /\ ~panicked'
               /\ current_mode' = current_mode
               /\ \A k \in DOMAIN grids' : grids'[k].mode = grids[k].mode)]_vars
\* C30: highlight id 0 exists in every reachable state, and after a
\* DefaultColorsSet(fg, bg, sp) the foreground, background and special colour
\* of id 0 are the default colours (fg, bg, sp) until the next
\* DefaultColorsSet, whatever other events arrive in between.
C30_IdZeroIsDefault ==
    [][LET zero_is_default(hl) ==
               /\ hl.defs[0].foreground = hl.default_fg
               /\ hl.defs[0].background = hl.default_bg
               /\ hl.defs[0].special = hl.default_sp
       IN /\ 0 \in DOMAIN hl_defs'.defs
          /\ (last_event'.name = "DefaultColorsSet" => zero_is_default(hl_defs'))
          /\ (last_event'.name # "DefaultColorsSet" /\ zero_is_default(hl_defs) =>
                zero_is_default(hl_defs'))]_vars
\* C31: in every reachable state after the first GridCursorGoto exactly one
\* grid is marked active and it is the grid named by the current grid, also
\* after a GridDestroy has reset the current grid to 1 and after a later
\* GridCursorGoto to grid 1.
C31_OneActiveGrid ==
    [][LET one_active(gs, cur) ==
               {k \in DOMAIN gs : gs[k].active} = {cur}
       IN ~panicked' =>
            /\ (last_event'.name = "GridCursorGoto" =>
                  one_active(grids', current_grid'))
            /\ (one_active(grids, current_grid) =>
                  one_active(grids', current_grid'))]_vars
\* C32: between events all grids have the font and line spacing of grid 1,
\* also a grid that GridResize created between a font or line-space option
\* and the next Flush; the rectangle WindowPos computes from the cell metrics
\* of grid 1 is therefore the pixel size of the grid the window hosts.
C32_GridsShareMetrics ==
    [][~panicked' =>
         /\ \A k \in DOMAIN grids' :
              /\ grids'[k].font = grids'[1].font
              /\ grids'[k].line_space = grids'[1].line_space
         /\ (last_event'.name = "WindowPos" =>
              LET g == last_event'.grid
                  m == get_grid_metrics(grids'[g])
              IN windows'[g].w = m.width /\ windows'[g].h = m.height)]_vars
\* C34: every grid-resize request WindowFloatPos submits carries cols >= 1 and
\* rows >= 1, each no larger than the cols and rows the grid has, for every
\* anchor position and floating size.
C34_FloatRequestInRange ==
    [][(last_event'.name = "WindowFloatPos" /\ ~panicked') =>
         LET sent == CallsOf(calls', "ui_try_resize_grid")
             g == last_event'.grid
         IN \A i \in DOMAIN sent :
              /\ sent[i].args[2] >= 1
              /\ sent[i].args[2] <= grids[g].cols
              /\ sent[i].args[3] >= 1
              /\ sent[i].args[3] <= grids[g].rows]_vars
\* C33: the float-resize negotiation converges for every anchor corner: when
\* the remote editor answers the grid-resize request of a WindowFloatPos with
\* a GridResize to exactly the requested cols and rows and delivers the same
\* WindowFloatPos again, the second WindowFloatPos submits no grid-resize
\* request.
C33_NegotiationConverges ==
    [][(/\ last_event.name = "GridResize"
        /\ 3 \in DOMAIN windows
        /\ last_event'.name = "WindowFloatPos"
        /\ ~panicked') =>
          CallsOf(calls', "ui_try_resize_grid") = <<>>]_vars
====
